---- MODULE Spec2Model ----
(***************************************************************************)
(* Model of the mcp_vertica connection pool (pool.py), of the templated    *)
(* SQL executor (sqlman.py), of the settings object (config.py) and of the *)
(* endpoints of server.py that use them.                                   *)
(*                                                                         *)
(*   Spec       the connection cache: get_conn scopes and reset_pool run   *)
(*              by concurrent workers, one step per access to shared state *)
(*   SpecRetry  _connect_with_retry and the retry record, attempt by       *)
(*              attempt, with the settings changing underneath it          *)
(*   SpecSql    run_sql on bounded templates and parameter maps            *)
(*   SpecAcquire  two workers acquiring connections: the cache, each       *)
(*              worker's connect sequence and the shared retry record      *)
(*   SpecBody   the timed body of run_sql inside its get_conn scope        *)
(*   SpecReset  reset_pool run with no other operation in progress, the    *)
(*              pool size changing between operations                      *)
(*   SpecConfig  the settings object: construction from the environment,   *)
(*              apply_database_overrides and reload_from_environment by    *)
(*              one caller, the environment changing between operations    *)
(*   SpecConfigRace  the same two writers, one attribute assignment per    *)
(*              step, beside a reader in vertica_connection_options        *)
(*   SpecRanked  ranked_multi over a list of queries, one run_sql call per *)
(*              step                                                       *)
(*   SpecRedact  _redact_sensitive_text on texts put together from         *)
(*              credential fragments                                       *)
(*   SpecServe  the health check and the query endpoint of server.py,      *)
(*              served by one thread while the settings are updated        *)
(*   SpecCall   a whole call of run_sql: validation, the get_conn scope,   *)
(*              the connect sequence and the clock read for provenance     *)
(*   SpecRetarget  the cache used by concurrent workers while              *)
(*              apply_database_overrides changes the target                *)
(***************************************************************************)
EXTENDS Integers, Sequences, FiniteSets, TLC

VARIABLES
    \* ---- connection cache (pool.py) ----
    pool_size,      \* settings.pool_size
    POOL,           \* the Queue object the global _POOL names (an index of queues)
    queues,         \* contents of every Queue object created so far
    maxsize,        \* Queue.maxsize of every Queue object created so far
    created,        \* number of connections _new_conn has returned
    closed,         \* connections on which close() has been called
    pc,             \* per worker: where it stands in get_conn / reset_pool
    conn,           \* per worker: local variable conn
    qref,           \* per worker: the Queue object it loaded from _POOL
    drained,        \* per worker: reset_pool's local list drained
    raised,         \* per worker: the with-body ended by an exception of the caller
    lastExit,       \* how a get_conn scope ended, if the step just taken ended one
    \* ---- connect sequence and retry record (pool.py) ----
    connection_attempts,        \* settings.connection_attempts
    connection_retry_backoff_s, \* settings.connection_retry_backoff_s, in microseconds
    RETRY_STATE,    \* the module-level dict _RETRY_STATE
    rpc,            \* where _connect_with_retry stands
    attempts,       \* its local attempts
    backoff,        \* its local backoff
    attempt,        \* its loop variable attempt
    last_exc,       \* its local last_exc
    delay,          \* its local delay
    now,            \* the clock _utcnow() reads, in microseconds
    atStart,        \* the settings as they were when the sequence began
    tried,          \* calls of _new_conn made by the sequence so far
    sleeps,         \* arguments of the time.sleep calls of the sequence so far
    outcome,        \* how the sequence ended: "returned", "raised", or "none" yet
    seqs,           \* connect sequences begun
    \* ---- run_sql (sqlman.py) ----
    max_rows,       \* settings.max_rows
    allowed_schemas,\* settings.allowed_schemas
    sql_file,       \* text of the template file, None when the file is missing
    call_params,    \* run_sql's argument params
    call_limit,     \* run_sql's argument limit, None when not given
    sql_result,     \* what the call did: the error raised or the statement executed
    \* ---- get_conn with its connect sequence, and run_sql's timed body ----
    cw,             \* per worker: the locals of its _connect_with_retry call
    getError,       \* what get_conn raised, if the step just taken made it raise
    stamp,          \* per field of _RETRY_STATE: the worker whose call wrote it last
    query_timeout_s,\* settings.query_timeout_s
    alarm,          \* seconds the process's SIGALRM timer is armed with, 0 when off
    \* ---- Settings (config.py) ----
    environ,        \* os.environ as far as Settings reads it
    settings,       \* the module-level Settings object, None before it is built
    cfg_pc,         \* where the caller that builds or updates settings stands
    cfg_src,        \* its local updated (apply) or refreshed (reload)
    cfg_keys,       \* the keys its loop has still to set
    cfg_before,     \* settings as the operation under way found it, None between operations
    cfg_done,       \* the operation the step just taken ended, "none" otherwise
    cfg_arg,        \* the overrides the caller of apply_database_overrides passed
    cfg_prev,       \* "apply" when the operation under way, or just ended, began
                    \* right after an apply_database_overrides, "none" otherwise
    rd_pc,          \* vertica_connection_options on another thread: next field to read
    rd_opts,        \* the options it has read so far
    rd_seen,        \* the targets settings held, or was given, while it read
    \* ---- ranked_multi (sqlman.py) ----
    rk_queries,     \* ranked_multi's argument queries
    rk_k,           \* ranked_multi's argument k
    db_rows,        \* per template the rows the database answers with
    rk_pc,          \* where ranked_multi stands
    rk_i,           \* position of its loop in queries
    rk_scores,      \* its dict scores, in insertion order
    rk_provenances, \* its list provenances
    rk_calls,       \* the run_sql calls it has made
    rk_exec,        \* the statements those calls executed and the rows fetched
    rk_result,      \* what ranked_multi returned
    rk_error,       \* the error that left ranked_multi
    \* ---- texts that are logged or returned (pool.py, server.py) ----
    red_frags,      \* the credential fragments the exception message holds
    red_text,       \* str(exc) of the exception at hand
    red_out,        \* what _redact_sensitive_text made of it, None before the call
    \* ---- the health check and the query endpoint (server.py) ----
    rq,             \* the locals of the handler under way
    rq_exc,         \* the exception that made it fail: the last one of the connect
                    \* sequence, or the one cursor.execute raised
    rq_raised,      \* what get_conn's with statement raised to the handler
    rq_result,      \* the dict the last handler returned
    rq_log,         \* the exception texts logged for the request
    rq_done,        \* the handler that returned in the step just taken
    rq_applies,     \* calls of apply_database_overrides made while serving
    \* ---- a whole call of run_sql (sqlman.py) ----
    call,           \* where the call stands, and its locals start and elapsed
    call_result,    \* what the last call ended with, None while one is under way
    clock,          \* the time that time() and _utcnow() read, in milliseconds
    \* ---- the target of the connections (config.py, pool.py) ----
    db_target,      \* settings.host as _new_conn reads it
    opened,         \* per connection: the target it was opened against
    followed        \* the reset_pool call that follows apply_database_overrides

poolVars == <<pool_size, POOL, queues, maxsize, created, closed, pc, conn, qref,
              drained, raised, lastExit>>

retryVars == <<connection_attempts, connection_retry_backoff_s, RETRY_STATE, rpc,
               attempts, backoff, attempt, last_exc, delay, now, atStart, tried,
               sleeps, outcome, seqs>>

sqlVars == <<max_rows, allowed_schemas, sql_file, call_params, call_limit, sql_result>>

acqVars == <<cw, getError, stamp, query_timeout_s, alarm>>

cfgVars == <<environ, settings, cfg_pc, cfg_src, cfg_keys, cfg_before, cfg_done,
             cfg_arg, cfg_prev, rd_pc, rd_opts, rd_seen>>

rankVars == <<rk_queries, rk_k, db_rows, rk_pc, rk_i, rk_scores, rk_provenances,
              rk_calls, rk_exec, rk_result, rk_error>>

redVars == <<red_frags, red_text, red_out>>

srvVars == <<rq, rq_exc, rq_raised, rq_result, rq_log, rq_done, rq_applies>>

callVars == <<call, call_result, clock>>

tgtVars == <<db_target, opened, followed>>

reqVars == <<redVars, srvVars, callVars, tgtVars>>

vars == <<poolVars, retryVars, sqlVars, acqVars, cfgVars, rankVars, reqVars>>

\* ------------------------------------------------------------------ bounds
NumWorkers == 2
MaxConns == 2
MaxResets == 1
MaxPool == 1

MaxAttemptsSetting == 3
MaxSeqs == 2
MaxTemplateTokens == 2
MaxRows == 2
MaxLimit == 2
MaxQueries == 2
MaxK == 2
MaxFragments == 2
MaxApplies == 1
MaxClock == 2

Workers == 1..NumWorkers
ConnIds == 1..MaxConns
QueueIds == 0..MaxResets
\* POOL_SIZE is read with int() and not range-checked (config.py:253-255), so 0 is
\* a value settings.pool_size can hold.
PoolSizes == 0..MaxPool

NoConn == 0
NoExit == [worker |-> 0, conn |-> NoConn, callerRaised |-> FALSE,
           fate |-> "none", closeRaised |-> FALSE, propagated |-> "none"]

\* ------------------------------------------------------- queue.Queue
\* Queue.full(): a maxsize <= 0 means the queue is unbounded.
QueueFull(items, max) == max > 0 /\ Len(items) >= max

get_nowait_peek(items) ==
    IF items = <<>> THEN [empty |-> TRUE, item |-> NoConn, rest |-> items]
    ELSE [empty |-> FALSE, item |-> Head(items), rest |-> items]

\* Queue.get_nowait(): Empty on an empty queue, else removes and returns the head.
get_nowait(items) ==
    IF items = <<>> THEN [empty |-> TRUE, item |-> NoConn, rest |-> items]
    ELSE [empty |-> FALSE, item |-> Head(items), rest |-> Tail(items)]

\* Queue.put_nowait(): Full when the queue is full, else appends.
put_nowait(items, c, max) ==
    IF QueueFull(items, max) THEN [full |-> TRUE, items |-> items]
    ELSE [full |-> FALSE, items |-> Append(items, c)]

\* server._pool_details(): available = _POOL.qsize(), max_size = _POOL.maxsize.
pool_details ==
    [configured_size |-> pool_size,
     available |-> Len(queues[POOL]),
     max_size |-> maxsize[POOL]]

\* ------------------------------------------------------------ Init
InitPool ==
    /\ pool_size \in PoolSizes
    /\ POOL = 0
    /\ queues = [q \in QueueIds |-> <<>>]
    /\ maxsize = [q \in QueueIds |-> IF q = 0 THEN pool_size ELSE 0]
    /\ created = 0
    /\ closed = {}
    /\ pc = [w \in Workers |-> "idle"]
    /\ conn = [w \in Workers |-> NoConn]
    /\ qref = [w \in Workers |-> 0]
    /\ drained = [w \in Workers |-> <<>>]
    /\ raised = [w \in Workers |-> FALSE]
    /\ lastExit = NoExit


\* ------------------------------------------------------------ get_conn
\* get_conn is entered: the global _POOL is loaded (pool.py:321).
GetConnEnter(w) ==
    /\ pc[w] = "idle"
    /\ pc' = [pc EXCEPT ![w] = "get"]
    /\ qref' = [qref EXCEPT ![w] = POOL]
    /\ lastExit' = NoExit
    /\ UNCHANGED <<pool_size, POOL, queues, maxsize, created, closed, conn, drained,
                   raised>>

GetConnPop_WaitsForConnects(w) ==
    /\ pc[w] = "get"
    /\ \A v \in Workers \ {w} : pc[v] # "connect"
    /\ LET r == get_nowait(queues[qref[w]]) IN
        IF r.empty
        THEN /\ pc' = [pc EXCEPT ![w] = "connect"]
             /\ UNCHANGED <<queues, conn>>
        ELSE /\ pc' = [pc EXCEPT ![w] = "held"]
             /\ conn' = [conn EXCEPT ![w] = r.item]
             /\ queues' = [queues EXCEPT ![qref[w]] = r.rest]
    /\ qref' = [qref EXCEPT ![w] = 0]
    /\ lastExit' = NoExit
    /\ UNCHANGED <<pool_size, POOL, maxsize, created, closed, drained, raised>>

\* A pop that waits for a slot while pool_size connections are checked out.
GetConnPop_WaitsForSlot(w) ==
    /\ pc[w] = "get"
    /\ LET r == get_nowait(queues[qref[w]]) IN
        IF r.empty
        THEN /\ Cardinality({v \in Workers : conn[v] # NoConn}) < pool_size
             /\ pc' = [pc EXCEPT ![w] = "connect"]
             /\ UNCHANGED <<queues, conn>>
        ELSE /\ pc' = [pc EXCEPT ![w] = "held"]
             /\ conn' = [conn EXCEPT ![w] = r.item]
             /\ queues' = [queues EXCEPT ![qref[w]] = r.rest]
    /\ qref' = [qref EXCEPT ![w] = 0]
    /\ lastExit' = NoExit
    /\ UNCHANGED <<pool_size, POOL, maxsize, created, closed, drained, raised>>

\* conn = _POOL.get_nowait(); on Empty the worker goes on to connect.
GetConnPop(w) ==
    /\ pc[w] = "get"
    /\ LET r == get_nowait(queues[qref[w]]) IN
        IF r.empty
        THEN /\ pc' = [pc EXCEPT ![w] = "connect"]
             /\ UNCHANGED <<queues, conn>>
        ELSE /\ pc' = [pc EXCEPT ![w] = "held"]
             /\ conn' = [conn EXCEPT ![w] = r.item]
             /\ queues' = [queues EXCEPT ![qref[w]] = r.rest]
    /\ qref' = [qref EXCEPT ![w] = 0]
    /\ lastExit' = NoExit
    /\ UNCHANGED <<pool_size, POOL, maxsize, created, closed, drained, raised>>

\* conn = _connect_with_retry() returns a new connection.
GetConnConnected(w) ==
    /\ pc[w] = "connect"
    /\ created < MaxConns
    /\ created' = created + 1
    /\ conn' = [conn EXCEPT ![w] = created + 1]
    /\ pc' = [pc EXCEPT ![w] = "held"]
    /\ lastExit' = NoExit
    /\ UNCHANGED <<pool_size, POOL, queues, maxsize, closed, qref, drained, raised>>

\* _connect_with_retry() raises: get_conn raises before its try block, no scope
\* is entered and nothing is to be released.
GetConnConnectFails(w) ==
    /\ pc[w] = "connect"
    /\ pc' = [pc EXCEPT ![w] = "idle"]
    /\ lastExit' = NoExit
    /\ UNCHANGED <<pool_size, POOL, queues, maxsize, created, closed, conn, qref,
                   drained, raised>>

\* The with-body ends, normally or by an exception of the caller; the finally
\* block starts and loads the global _POOL (pool.py:326-328).
GetConnLeave(w) ==
    /\ pc[w] = "held"
    /\ \E r \in BOOLEAN : raised' = [raised EXCEPT ![w] = r]
    /\ qref' = [qref EXCEPT ![w] = POOL]
    /\ pc' = [pc EXCEPT ![w] = "put"]
    /\ lastExit' = NoExit
    /\ UNCHANGED <<pool_size, POOL, queues, maxsize, created, closed, conn, drained>>

Propagated_CloseEscapes(callerRaised, closeRaised) ==
    IF closeRaised THEN "close" ELSE IF callerRaised THEN "caller" ELSE "none"

\* What leaves get_conn once the finally block is through: the caller's own
\* exception if there was one; the handlers at pool.py:329 and :340 swallow
\* the rest.
Propagated(callerRaised, closeRaised) ==
    IF callerRaised THEN "caller" ELSE "none"

\* The scope of worker w is left for good.
ExitRecord(w, fate, closeRaised) ==
    [worker |-> w, conn |-> conn[w], callerRaised |-> raised[w], fate |-> fate,
     closeRaised |-> closeRaised,
     propagated |-> Propagated(raised[w], closeRaised)]

\* _POOL.put_nowait(conn): accepted, or Full is caught and the connection is to
\* be closed (pool.py:328-339).
GetConnPut(w) ==
    /\ pc[w] = "put"
    /\ LET r == put_nowait(queues[qref[w]], conn[w], maxsize[qref[w]]) IN
        IF r.full
        THEN /\ pc' = [pc EXCEPT ![w] = "close"]
             /\ lastExit' = NoExit
             /\ UNCHANGED <<queues, conn, raised>>
        ELSE /\ pc' = [pc EXCEPT ![w] = "idle"]
             /\ queues' = [queues EXCEPT ![qref[w]] = r.items]
             /\ conn' = [conn EXCEPT ![w] = NoConn]
             /\ raised' = [raised EXCEPT ![w] = FALSE]
             /\ lastExit' = ExitRecord(w, "pooled", FALSE)
    /\ qref' = [qref EXCEPT ![w] = 0]
    /\ UNCHANGED <<pool_size, POOL, maxsize, created, closed, drained>>

\* conn.close() after the rejection; close() may raise, which is logged only.
GetConnDiscard(w) ==
    /\ pc[w] = "close"
    /\ closed' = closed \cup {conn[w]}
    /\ conn' = [conn EXCEPT ![w] = NoConn]
    /\ pc' = [pc EXCEPT ![w] = "idle"]
    /\ raised' = [raised EXCEPT ![w] = FALSE]
    /\ \E closeRaised \in BOOLEAN : lastExit' = ExitRecord(w, "closed", closeRaised)
    /\ UNCHANGED <<pool_size, POOL, queues, maxsize, created, qref, drained>>

\* ---------------------------------------------------------- reset_pool
\* Queue objects made by reset_pool so far, plus the resets under way.
ResetsBegun == POOL + Cardinality({w \in Workers : pc[w] \in {"drain", "rclose"}})

\* queue = _POOL; drained = [] (pool.py:357-358).
ResetEnter(w) ==
    /\ pc[w] = "idle"
    /\ ResetsBegun < MaxResets
    /\ pc' = [pc EXCEPT ![w] = "drain"]
    /\ qref' = [qref EXCEPT ![w] = POOL]
    /\ drained' = [drained EXCEPT ![w] = <<>>]
    /\ lastExit' = NoExit
    /\ UNCHANGED <<pool_size, POOL, queues, maxsize, created, closed, conn, raised>>

\* One turn of the drain loop: queue.get_nowait(), until Empty.
ResetDrain(w) ==
    /\ pc[w] = "drain"
    /\ LET r == get_nowait(queues[qref[w]]) IN
        IF r.empty
        THEN /\ pc' = [pc EXCEPT ![w] = "rclose"]
             /\ UNCHANGED <<queues, drained>>
        ELSE /\ drained' = [drained EXCEPT ![w] = Append(@, r.item)]
             /\ queues' = [queues EXCEPT ![qref[w]] = r.rest]
             /\ UNCHANGED pc
    /\ lastExit' = NoExit
    /\ UNCHANGED <<pool_size, POOL, maxsize, created, closed, conn, qref, raised>>

ResetClose_StopsAtRaise(w) ==
    /\ pc[w] = "rclose"
    /\ drained[w] # <<>>
    /\ closed' = closed \cup {Head(drained[w])}
    /\ \E closeRaised \in BOOLEAN :
        drained' = [drained EXCEPT ![w] = IF closeRaised THEN <<>> ELSE Tail(@)]
    /\ lastExit' = NoExit
    /\ UNCHANGED <<pool_size, POOL, queues, maxsize, created, pc, conn, qref, raised>>

ResetClose_ClosesBorrowed(w) ==
    /\ pc[w] = "rclose"
    /\ drained[w] # <<>>
    /\ closed' = closed \cup {Head(drained[w])}
                        \cup {conn[v] : v \in {v \in Workers : pc[v] = "held"}}
    /\ drained' = [drained EXCEPT ![w] = Tail(@)]
    /\ lastExit' = NoExit
    /\ UNCHANGED <<pool_size, POOL, queues, maxsize, created, pc, conn, qref, raised>>

\* One turn of the close loop: conn.close(), a raise is logged and passed over.
ResetClose(w) ==
    /\ pc[w] = "rclose"
    /\ drained[w] # <<>>
    /\ closed' = closed \cup {Head(drained[w])}
    /\ drained' = [drained EXCEPT ![w] = Tail(@)]
    /\ lastExit' = NoExit
    /\ UNCHANGED <<pool_size, POOL, queues, maxsize, created, pc, conn, qref, raised>>

\* _POOL = Queue(maxsize=settings.pool_size) (pool.py:382).
ResetAssign(w) ==
    /\ pc[w] = "rclose"
    /\ drained[w] = <<>>
    /\ POOL' = POOL + 1
    /\ maxsize' = [maxsize EXCEPT ![POOL + 1] = pool_size]
    /\ pc' = [pc EXCEPT ![w] = "idle"]
    /\ qref' = [qref EXCEPT ![w] = 0]
    /\ lastExit' = NoExit
    /\ UNCHANGED <<pool_size, queues, created, closed, conn, drained, raised>>

\* ------------------------------------------------------------ Next
NextPool ==
    \E w \in Workers :
        \/ GetConnEnter(w)
        \/ GetConnPop(w)
        \/ GetConnConnected(w)
        \/ GetConnConnectFails(w)
        \/ GetConnLeave(w)
        \/ GetConnPut(w)
        \/ GetConnDiscard(w)
        \/ ResetEnter(w)
        \/ ResetDrain(w)
        \/ ResetClose(w)
        \/ ResetAssign(w)

\* settings.pool_size is assigned a new value (reload_from_environment or a
\* caller of the settings object); the cache is not touched.
PoolSizeChange ==
    /\ \E n \in PoolSizes \ {pool_size} : pool_size' = n
    /\ lastExit' = NoExit
    /\ UNCHANGED <<POOL, queues, maxsize, created, closed, pc, conn, qref, drained,
                   raised>>

\* reset_pool with no pool operation beside it: it starts when every worker is
\* idle, and no get_conn starts before it is through.
Resetting == {w \in Workers : pc[w] \in {"drain", "rclose"}}
NextSerial ==
    \/ \E w \in Workers :
        \/ Resetting = {} /\ GetConnEnter(w)
        \/ GetConnPop(w)
        \/ GetConnConnected(w)
        \/ GetConnConnectFails(w)
        \/ GetConnLeave(w)
        \/ GetConnPut(w)
        \/ GetConnDiscard(w)
        \/ (\A v \in Workers : pc[v] = "idle") /\ ResetEnter(w)
        \/ ResetDrain(w)
        \/ ResetClose(w)
        \/ ResetAssign(w)
    \/ PoolSizeChange

\* =============================================== _connect_with_retry
\* An optional value: <<>> is None, <<x>> is x.
None == <<>>
Some(x) == <<x>>

Max(a, b) == IF a >= b THEN a ELSE b

RECURSIVE Pow2(_)
Pow2(n) == IF n <= 0 THEN 1 ELSE 2 * Pow2(n - 1)

\* Values settings.connection_attempts can hold (Field(ge=1), config.py:257-262).
AttemptChoices == 1..MaxAttemptsSetting
\* Values settings.connection_retry_backoff_s can hold (Field(ge=0)), in
\* microseconds: 0 s, 0.0004 s and 0.25 s.
BackoffChoices == {0, 400, 250000}
\* Text is a sequence of one-character strings.
UpperSeq == <<"A", "B", "C", "D", "E", "F", "G", "H", "I", "J", "K", "L", "M",
              "N", "O", "P", "Q", "R", "S", "T", "U", "V", "W", "X", "Y", "Z">>
LowerSeq == <<"a", "b", "c", "d", "e", "f", "g", "h", "i", "j", "k", "l", "m",
              "n", "o", "p", "q", "r", "s", "t", "u", "v", "w", "x", "y", "z">>
Range(f) == {f[i] : i \in DOMAIN f}
Letters == Range(UpperSeq) \cup Range(LowerSeq)
Digits == {"0", "1", "2", "3", "4", "5", "6", "7", "8", "9"}
\* [A-Za-z_] and [A-Za-z0-9_]
IdentStartChars == Letters \cup {"_"}
IdentChars == IdentStartChars \cup Digits

\* str.lower() on one character, and on a text.
LowerChar(c) ==
    IF c \in Range(UpperSeq)
    THEN LowerSeq[CHOOSE i \in DOMAIN UpperSeq : UpperSeq[i] = c]
    ELSE c
Lower(text) == [i \in DOMAIN text |-> LowerChar(text[i])]

\* sub in text
Contains(text, sub) ==
    \E i \in 1..(Len(text) - Len(sub) + 1) : SubSeq(text, i, i + Len(sub) - 1) = sub
\* text.endswith(suffix)
EndsWith(text, suffix) ==
    /\ Len(text) >= Len(suffix)
    /\ SubSeq(text, Len(text) - Len(suffix) + 1, Len(text)) = suffix

StartsWith(text, prefix) ==
    /\ Len(text) >= Len(prefix)
    /\ SubSeq(text, 1, Len(prefix)) = prefix

\* str.strip(): the white space of the model's texts.
WhiteSpace == {" ", "\n", "\t"}
RECURSIVE LStrip(_)
LStrip(text) ==
    IF text # <<>> /\ Head(text) \in WhiteSpace THEN LStrip(Tail(text)) ELSE text
RECURSIVE RStrip(_)
RStrip(text) ==
    IF text # <<>> /\ text[Len(text)] \in WhiteSpace
    THEN RStrip(SubSeq(text, 1, Len(text) - 1))
    ELSE text
Strip(text) == RStrip(LStrip(text))

\* ------------------------------------------- _redact_sensitive_text
\* _SENSITIVE_KEYS, and the literal words of the other patterns.
SENSITIVE_KEYS == <<<<"p", "a", "s", "s", "w", "o", "r", "d">>,
                    <<"t", "o", "k", "e", "n">>,
                    <<"s", "e", "c", "r", "e", "t">>>>
W_authorization == <<"a", "u", "t", "h", "o", "r", "i", "z", "a", "t", "i", "o", "n">>
W_bearer == <<"b", "e", "a", "r", "e", "r">>
REDACTED == <<"<", "r", "e", "d", "a", "c", "t", "e", "d", ">">>
\* ['"], [^\s,;] and [^'"\s,;] by the characters they shut out.
QuoteChars == {"'", "\""}
ValueStops == WhiteSpace \cup {",", ";"}
BareValueStops == ValueStops \cup QuoteChars

\* A literal word of a pattern compiled with re.IGNORECASE, at pos.
WordAt(text, pos, word) ==
    /\ pos + Len(word) - 1 <= Len(text)
    /\ Lower(SubSeq(text, pos, pos + Len(word) - 1)) = word

\* Where a greedy run that starts at pos stops: the first index at or after pos
\* whose character is in chars (inside = FALSE) or is not (inside = TRUE).
SpanEnd(text, pos, chars, inside) ==
    IF \A j \in pos..Len(text) : (text[j] \in chars) = inside
    THEN Len(text) + 1
    ELSE CHOOSE j \in pos..Len(text) :
            /\ (text[j] \in chars) # inside
            /\ \A k \in pos..(j - 1) : (text[k] \in chars) = inside

\* \s*[=:]\s* (or \s*:\s*) from pos: the index after it, 0 when it does not match.
SeparatorEnd(text, pos, seps) ==
    LET After(at) == IF at <= Len(text) /\ text[at] \in seps
                     THEN SpanEnd(text, at + 1, WhiteSpace, TRUE)
                     ELSE 0
    IN  After(SpanEnd(text, pos, WhiteSpace, TRUE))

\* (?P<key>password|token|secret) at pos: the length of the key, 0 when none.
KeyLen(text, pos) ==
    IF \E i \in DOMAIN SENSITIVE_KEYS : WordAt(text, pos, SENSITIVE_KEYS[i])
    THEN Len(SENSITIVE_KEYS[CHOOSE i \in DOMAIN SENSITIVE_KEYS :
                                /\ WordAt(text, pos, SENSITIVE_KEYS[i])
                                /\ \A j \in 1..(i - 1) :
                                        ~WordAt(text, pos, SENSITIVE_KEYS[j])])
    ELSE 0

\* A match of a pattern at a position: where it ends and what replaces it.
NoMatch == [ok |-> FALSE, end |-> 0, repl |-> <<>>]
Match(end, repl) == [ok |-> TRUE, end |-> end, repl |-> repl]

\* _QUOTED_SENSITIVE_PATTERN at pos, replaced by _quoted_repl: a quoted key (of
\* n characters), a colon, a quoted value (its opening quote at sep) that runs
\* (.*?) to the next quote of its kind on the same line.
quoted_match(text, pos) ==
    LET Value(n, sep) ==
            IF /\ pos <= Len(text) /\ text[pos] \in QuoteChars
               /\ n # 0
               /\ pos + n + 1 <= Len(text) /\ text[pos + n + 1] = text[pos]
               /\ sep # 0 /\ sep <= Len(text) /\ text[sep] \in QuoteChars
               /\ \E j \in (sep + 1)..Len(text) : text[j] = text[sep]
            THEN LET Closed(last) ==
                        IF \E k \in (sep + 1)..(last - 1) : text[k] = "\n"
                        THEN NoMatch
                        ELSE Match(last + 1,
                                   <<text[pos]>> \o SubSeq(text, pos + 1, pos + n)
                                   \o <<text[pos]>> \o <<":", " ">>
                                   \o <<text[sep]>> \o REDACTED \o <<text[sep]>>)
                 IN  Closed(SpanEnd(text, sep + 1, {text[sep]}, FALSE))
            ELSE NoMatch
        Key(n) == Value(n, IF n = 0 THEN 0 ELSE SeparatorEnd(text, pos + n + 2, {":"}))
    IN  Key(KeyLen(text, pos + 1))

\* _AUTHORIZATION_PATTERN at pos, replaced by _authorization_repl: the scheme is
\* taken when a value follows it, else the word standing there is the value.
\* sep is where the separator ends, gap where the white space after the scheme
\* ends, from where the value begins.
authorization_match(text, pos) ==
    LET Value(sep, from) ==
            LET Ended(end) ==
                    IF sep # 0 /\ end > from
                    THEN Match(end, SubSeq(text, pos, from - 1) \o REDACTED)
                    ELSE NoMatch
            IN  Ended(SpanEnd(text, from, ValueStops, FALSE))
        Scheme(sep, gap) ==
            Value(sep, IF /\ gap > sep + Len(W_bearer)
                          /\ SpanEnd(text, gap, ValueStops, FALSE) > gap
                       THEN gap ELSE sep)
        Prefix(sep) ==
            Scheme(sep, IF sep # 0 /\ WordAt(text, sep, W_bearer)
                        THEN SpanEnd(text, sep + Len(W_bearer), WhiteSpace, TRUE)
                        ELSE 0)
    IN  Prefix(IF WordAt(text, pos, W_authorization)
               THEN SeparatorEnd(text, pos + Len(W_authorization), {"=", ":"})
               ELSE 0)

\* _UNQUOTED_SENSITIVE_PATTERN at pos, replaced by _unquoted_repl: the closing
\* quote is taken when it is there.
unquoted_match(text, pos) ==
    LET Value(sep, quote) ==
            LET Ended(from, end) ==
                    IF sep # 0 /\ end > from
                    THEN Match(IF quote # <<>> /\ end <= Len(text)
                                  /\ text[end] = quote[1]
                               THEN end + 1 ELSE end,
                               SubSeq(text, pos, sep - 1) \o quote \o REDACTED
                               \o quote)
                    ELSE NoMatch
            IN  Ended(sep + Len(quote),
                      SpanEnd(text, sep + Len(quote), BareValueStops, FALSE))
        Prefix(sep) ==
            Value(sep, IF sep # 0 /\ sep <= Len(text) /\ text[sep] \in QuoteChars
                       THEN <<text[sep]>> ELSE <<>>)
        Key(n) == Prefix(IF n = 0 THEN 0 ELSE SeparatorEnd(text, pos + n, {"=", ":"}))
    IN  Key(KeyLen(text, pos))

\* _BEARER_PATTERN at pos, replaced by its lambda.
bearer_match(text, pos) ==
    LET Value(gap) ==
            LET Ended(end) ==
                    IF gap > pos + Len(W_bearer) /\ end > gap
                    THEN Match(end, SubSeq(text, pos, gap - 1) \o REDACTED)
                    ELSE NoMatch
            IN  Ended(SpanEnd(text, gap, ValueStops, FALSE))
    IN  Value(IF WordAt(text, pos, W_bearer)
              THEN SpanEnd(text, pos + Len(W_bearer), WhiteSpace, TRUE)
              ELSE 0)

MatchAt(pattern, text, pos) ==
    CASE pattern = "quoted" -> quoted_match(text, pos)
      [] pattern = "authorization" -> authorization_match(text, pos)
      [] pattern = "unquoted" -> unquoted_match(text, pos)
      [] pattern = "bearer" -> bearer_match(text, pos)

\* pattern.sub(repl, text) from pos on: the matches are found from left to
\* right and do not overlap; what lies between them is kept.
RECURSIVE SubFrom(_, _, _)
SubFrom(pattern, text, pos) ==
    CHOOSE out \in
        {IF found = {} THEN SubSeq(text, pos, Len(text))
         ELSE CHOOSE o \in
                {SubSeq(text, pos, m.at - 1) \o m.match.repl
                    \o SubFrom(pattern, text, m.match.end) :
                 m \in {CHOOSE f \in found : \A g \in found : f.at <= g.at}} : TRUE :
         found \in {{m \in {[at |-> i, match |-> MatchAt(pattern, text, i)] :
                                i \in pos..Len(text)} : m.match.ok}}} : TRUE
Sub(pattern, text) == SubFrom(pattern, text, 1)

\* The order in which _redact_sensitive_text applies its patterns (pool.py:63-66).
PatternOrder == <<"quoted", "authorization", "unquoted", "bearer">>
RECURSIVE SubEach(_, _)
SubEach(patterns, text) ==
    IF patterns = <<>> THEN text
    ELSE CHOOSE out \in {SubEach(Tail(patterns), t) :
                            t \in {Sub(Head(patterns), text)}} : TRUE

\* _redact_sensitive_text(text), pool.py:42-67
redact_sensitive_text(text) ==
    IF text = <<>> THEN text ELSE SubEach(PatternOrder, text)

\* ---- the messages redaction is watched on ----
\* The values a credential may have: plain ones, and ones holding a character
\* that ends a value in the patterns.
Secrets == {<<"x", "9">>, <<"q", "-", "7">>, <<"v", " ", "w">>, <<";", "x">>}
UpperChar(c) ==
    IF c \in Range(LowerSeq)
    THEN UpperSeq[CHOOSE i \in DOMAIN LowerSeq : LowerSeq[i] = c]
    ELSE c
Upper(text) == [i \in DOMAIN text |-> UpperChar(text[i])]
FragmentForms == {"password", "token", "authorization", "secret"}
\* A credential as it stands in a message: password=X, token=X,
\* Authorization: Bearer X or secret: "X", as written or in capitals.
Fragments == [form : FragmentForms, capitals : BOOLEAN, X : Secrets]
FragmentText(f) ==
    LET lead == CASE f.form = "password" -> SENSITIVE_KEYS[1] \o <<"=">>
                  [] f.form = "token" -> SENSITIVE_KEYS[2] \o <<"=">>
                  [] f.form = "authorization" ->
                        <<"A">> \o Tail(W_authorization) \o <<":", " ", "B">>
                        \o Tail(W_bearer) \o <<" ">>
                  [] f.form = "secret" -> SENSITIVE_KEYS[3] \o <<":", " ", "\"">>
    IN (IF f.capitals THEN Upper(lead) ELSE lead) \o f.X
       \o (IF f.form = "secret" THEN <<"\"">> ELSE <<>>)
\* str(exc): the fragments with a blank between them.
RECURSIVE MessageText(_)
MessageText(frags) ==
    IF frags = <<>> THEN <<>>
    ELSE IF Len(frags) = 1 THEN FragmentText(frags[1])
    ELSE FragmentText(frags[1]) \o <<" ">> \o MessageText(Tail(frags))
FragmentLists ==
    UNION {[1..n -> Fragments] : n \in 1..MaxFragments}

InitRedaction ==
    /\ red_frags \in FragmentLists
    /\ red_text = MessageText(red_frags)
    /\ red_out = None

\* _exception_summary, pool.py:71: the message goes through the redaction.
RedactMessage ==
    /\ red_out = None
    /\ red_out' = Some(redact_sensitive_text(red_text))
    /\ UNCHANGED <<red_frags, red_text>>

NextRedaction == RedactMessage

M_down == <<"d", "o", "w", "n">>
M_fatal == <<"F", "A", "T", "A", "L", " ", "2", "8", "0", "0", "0">>
M_password == <<"n", "o", " ", "p", "a", "s", "s", "w", "o", "r", "d">>
\* An exception _new_conn raises: the class name, the classes isinstance() finds
\* the exception in, its errno attribute ("none" when it has none or is no
\* OSError) and str(exc).
Excs == {[name |-> "RuntimeError", bases |-> {"RuntimeError"}, errno |-> "none",
          message |-> M_down],
         [name |-> "OSError", bases |-> {"OSError"}, errno |-> "none",
          message |-> <<>>]}
\* More of them, for what becomes of the last exception of a sequence.
ConnectExcs ==
    Excs \cup
    {[name |-> "RuntimeError", bases |-> {"RuntimeError"}, errno |-> "none",
      message |-> M_password],
     [name |-> "OSError", bases |-> {"OSError"}, errno |-> "EACCES",
      message |-> M_down],
     [name |-> "OSError", bases |-> {"OSError"}, errno |-> "ENETUNREACH",
      message |-> M_down],
     [name |-> "ConnectionRefusedError",
      bases |-> {"ConnectionRefusedError", "builtins.ConnectionError", "OSError"},
      errno |-> "ECONNREFUSED", message |-> M_down],
     [name |-> "gaierror", bases |-> {"socket.gaierror", "OSError"},
      errno |-> "EAI_NONAME", message |-> M_down],
     [name |-> "ConnectionError", bases |-> {"vertica_python.errors.ConnectionError"},
      errno |-> "none", message |-> M_fatal],
     [name |-> "ConnectionError", bases |-> {"vertica_python.errors.ConnectionError"},
      errno |-> "none", message |-> M_down]}
NoExc == [name |-> "", bases |-> {}, errno |-> "none", message |-> <<>>]
\* A failure whose text repeats a credential of the connection options.
M_secret == <<"p", "a", "s", "s", "w", "o", "r", "d", "=", "x", "9">>
SecretExc == [name |-> "RuntimeError", bases |-> {"RuntimeError"}, errno |-> "none",
              message |-> M_secret]
KnownExcs == ConnectExcs \cup {SecretExc, NoExc}

\* _exception_summary: (class name, message or None), the message being
\* str(exc) redacted and then stripped.
exception_summary(exc) ==
    LET message == CHOOSE m \in {Strip(r) : r \in {redact_sensitive_text(exc.message)}} :
                       TRUE
    IN  [name |-> exc.name,
         message |-> IF message = <<>> THEN None ELSE Some(message)]
\* The summaries of the exceptions of the model, computed once.
Summaries == [exc \in KnownExcs |-> exception_summary(exc)]

\* _exponential_backoff_delay(base, attempt).
exponential_backoff_delay_exponent_off(base, n) ==
    IF base <= 0 THEN 0 ELSE base * Pow2(Max(0, n))

exponential_backoff_delay(base, n) ==
    IF base <= 0 THEN 0 ELSE base * Pow2(Max(0, n - 1))

\* round(delay, 3): to whole milliseconds. No delay of the model lies halfway
\* between two milliseconds.
Round3(d) == ((d + 500) \div 1000) * 1000

\* _default_retry_state().
default_retry_state ==
    [in_progress |-> FALSE,
     attempts |-> 0,
     max_attempts |-> Max(1, connection_attempts),
     strategy |-> "exponential",
     base_backoff_s |-> Max(0, connection_retry_backoff_s),
     last_failure |-> None,
     last_exception |-> None,
     last_failure_at |-> None,
     next_retry_in_s |-> None,
     next_retry_at |-> None,
     recovered_at |-> None,
     exhausted |-> FALSE]

\* _update_retry_context(attempts=, base_backoff=).
update_retry_context(st, n, b) ==
    [st EXCEPT !.max_attempts = n,
               !.base_backoff_s = Max(0, b),
               !.strategy = "exponential"]

\* The delay _record_retry_failure computes and returns.
retry_failure_delay(n, max_attempts, base_backoff) ==
    IF n >= max_attempts THEN 0 ELSE exponential_backoff_delay(base_backoff, n)

\* The first _RETRY_STATE.update of _record_retry_failure (pool.py:132-139); t
\* is what _utcnow() returns.
record_retry_failure_head(st, exc, n, max_attempts, t) ==
    LET summary == Summaries[exc]
        in_progress == n < max_attempts
    IN  [st EXCEPT
            !.in_progress = in_progress,
            !.attempts = n,
            !.last_failure = IF summary.message # None THEN summary.message
                             ELSE Some(summary.name),
            !.last_exception = Some(summary.name),
            !.last_failure_at = Some(t),
            !.exhausted = ~in_progress]

\* Its second update (pool.py:141-149).
record_retry_failure_tail(st, n, max_attempts, base_backoff, t) ==
    LET d == retry_failure_delay(n, max_attempts, base_backoff) IN
    IF n < max_attempts
    THEN [st EXCEPT !.next_retry_in_s = Some(Round3(d)),
                    !.next_retry_at = Some(t + d)]
    ELSE [st EXCEPT !.next_retry_in_s = None, !.next_retry_at = None]

\* The record _record_retry_failure leaves when nothing else writes between
\* its two updates.
record_retry_failure(st, exc, n, max_attempts, base_backoff, t) ==
    record_retry_failure_tail(record_retry_failure_head(st, exc, n, max_attempts, t),
                              n, max_attempts, base_backoff, t)

record_retry_success_keeps_exhausted(st, n, t) ==
    [st EXCEPT !.in_progress = FALSE,
               !.attempts = n,
               !.next_retry_in_s = None,
               !.next_retry_at = None,
               !.recovered_at = Some(t)]

record_retry_success_forgets_failure(st, n, t) ==
    [st EXCEPT !.in_progress = FALSE,
               !.attempts = n,
               !.next_retry_in_s = None,
               !.next_retry_at = None,
               !.exhausted = FALSE,
               !.recovered_at = Some(t),
               !.last_failure = None,
               !.last_exception = None]

\* The record _record_retry_success leaves.
record_retry_success(st, n, t) ==
    [st EXCEPT !.in_progress = FALSE,
               !.attempts = n,
               !.next_retry_in_s = None,
               !.next_retry_at = None,
               !.exhausted = FALSE,
               !.recovered_at = Some(t)]

\* connection_retry_state(): a copy of the record.
connection_retry_state == RETRY_STATE

InitRetry ==
    /\ connection_attempts \in AttemptChoices
    /\ connection_retry_backoff_s \in BackoffChoices
    /\ RETRY_STATE = default_retry_state
    /\ rpc = "idle"
    /\ attempts = 0
    /\ backoff = 0
    /\ attempt = 0
    /\ last_exc = NoExc
    /\ delay = 0
    /\ now = 0
    /\ atStart = [connection_attempts |-> 0, connection_retry_backoff_s |-> 0]
    /\ tried = 0
    /\ sleeps = <<>>
    /\ outcome = "none"
    /\ seqs = 0

\* The settings change while nothing of the sequence runs: another thread calls
\* reload_from_environment, or the sequence is between two of its steps.
SettingsChange ==
    /\ \E n \in AttemptChoices, b \in BackoffChoices :
        /\ <<n, b>> # <<connection_attempts, connection_retry_backoff_s>>
        /\ connection_attempts' = n
        /\ connection_retry_backoff_s' = b
    /\ UNCHANGED <<RETRY_STATE, rpc, attempts, backoff, attempt, last_exc, delay, now,
                   atStart, tried, sleeps, outcome, seqs>>

\* pool.py:233-239: the settings are read, the record gets its context, the
\* loop starts.
ConnectBegin ==
    /\ rpc = "idle"
    /\ seqs < MaxSeqs
    /\ seqs' = seqs + 1
    /\ attempts' = Max(1, connection_attempts)
    /\ backoff' = connection_retry_backoff_s
    /\ last_exc' = NoExc
    /\ RETRY_STATE' = update_retry_context(RETRY_STATE, Max(1, connection_attempts),
                                           connection_retry_backoff_s)
    /\ attempt' = 1
    /\ delay' = 0
    /\ atStart' = [connection_attempts |-> connection_attempts,
                   connection_retry_backoff_s |-> connection_retry_backoff_s]
    /\ tried' = 0
    /\ sleeps' = <<>>
    /\ outcome' = "none"
    /\ rpc' = "try"
    /\ UNCHANGED <<connection_attempts, connection_retry_backoff_s, now>>

\* pool.py:281-287: _new_conn() returns; the success is recorded and the
\* connection returned.
AttemptSucceeds ==
    /\ rpc = "try"
    /\ tried' = tried + 1
    /\ now' = now + 1
    /\ RETRY_STATE' = record_retry_success(RETRY_STATE, attempt, now')
    /\ outcome' = "returned"
    /\ rpc' = "idle"
    /\ UNCHANGED <<connection_attempts, connection_retry_backoff_s, attempts, backoff,
                   attempt, last_exc, delay, atStart, sleeps, seqs>>

\* The loop's exit test after a failed attempt (pool.py:264; the range at :239
\* ends with the same attempt).
IsFinalAttempt_Reread == attempt >= Max(1, connection_attempts)

IsFinalAttempt == attempt = attempts

\* pool.py:242-280: _new_conn() raises; the failure is recorded; after the last
\* attempt the loop is left and the exception raised (pool.py:289-315), else
\* the worker is about to sleep, or goes on at once when the delay is zero.
AttemptFails ==
    /\ rpc = "try"
    /\ tried' = tried + 1
    /\ now' = now + 1
    /\ \E exc \in Excs :
        /\ last_exc' = exc
        /\ RETRY_STATE' = record_retry_failure(RETRY_STATE, exc, attempt, attempts,
                                               backoff, now')
    /\ delay' = retry_failure_delay(attempt, attempts, backoff)
    /\ IF IsFinalAttempt
       THEN /\ outcome' = "raised"
            /\ rpc' = "idle"
            /\ UNCHANGED attempt
       ELSE /\ UNCHANGED outcome
            /\ IF delay' # 0
               THEN rpc' = "sleep" /\ UNCHANGED attempt
               ELSE rpc' = "try" /\ attempt' = attempt + 1
    /\ UNCHANGED <<connection_attempts, connection_retry_backoff_s, attempts, backoff,
                   atStart, sleeps, seqs>>

\* pool.py:274: time.sleep(delay), then the next turn of the loop.
Sleep ==
    /\ rpc = "sleep"
    /\ sleeps' = Append(sleeps, delay)
    /\ now' = now + delay
    /\ attempt' = attempt + 1
    /\ rpc' = "try"
    /\ UNCHANGED <<connection_attempts, connection_retry_backoff_s, RETRY_STATE,
                   attempts, backoff, last_exc, delay, atStart, tried, outcome, seqs>>

NextRetry ==
    \/ SettingsChange
    \/ ConnectBegin
    \/ AttemptSucceeds
    \/ AttemptFails
    \/ Sleep

\* ============================================================ run_sql
\* Where the greedy [A-Za-z0-9_]* that starts at pos stops: the first index at
\* or after pos that holds no identifier character.
RECURSIVE IdentEnd(_, _)
IdentEnd(text, pos) ==
    IF pos <= Len(text) /\ text[pos] \in IdentChars THEN IdentEnd(text, pos + 1)
    ELSE pos

\* _IDENT.match(text): [A-Za-z_][A-Za-z0-9_]*$ from the start of the text; $
\* matches at the end of the text and also right before a newline that ends it.
IDENT_match(text) ==
    /\ text # <<>>
    /\ text[1] \in IdentStartChars
    /\ LET e == IdentEnd(text, 2) IN
        \/ e = Len(text) + 1
        \/ e = Len(text) /\ text[e] = "\n"

\* _SCHEMA_RE.finditer(text): the scan goes left to right; at a start character
\* the identifier is taken greedily and has to be followed by a dot, and the
\* next match is looked for after that dot.
RECURSIVE SchemaScan(_, _, _)
SchemaScan(text, pos, found) ==
    IF pos > Len(text) THEN found
    ELSE IF text[pos] \in IdentStartChars
         THEN LET e == IdentEnd(text, pos + 1) IN
              IF e <= Len(text) /\ text[e] = "."
              THEN SchemaScan(text, e + 1, found \cup {SubSeq(text, pos, e - 1)})
              ELSE SchemaScan(text, pos + 1, found)
         ELSE SchemaScan(text, pos + 1, found)

\* _find_schemas(sql_text)
find_schemas(text) == SchemaScan(text, 1, {})

\* settings.allowed_schema_set()
allowed_schema_set == {Lower(allowed_schemas[i]) : i \in DOMAIN allowed_schemas}

\* The list _enforce_schema_allowlist builds; it raises when it is not empty.
disallowed_case_sensitive(text) ==
    {schema \in find_schemas(text) : schema \notin allowed_schema_set}

disallowed(text) ==
    {schema \in find_schemas(text) : Lower(schema) \notin allowed_schema_set}

\* ensure_schema_allowed(schema): "ValueError", "PermissionError" or "ok".
ensure_schema_allowed(schema) ==
    IF ~IDENT_match(schema) THEN "ValueError"
    ELSE IF Lower(schema) \notin allowed_schema_set THEN "PermissionError"
    ELSE "ok"

\* Texts that occur in the code.
T_limit == <<":", "l", "i", "m", "i", "t">>
K_limit == <<"l", "i", "m", "i", "t">>
K_schema == <<"s", "c", "h", "e", "m", "a">>
K_src_schema == <<"s", "r", "c", "_">> \o K_schema
K_schemas == K_schema \o <<"s">>
WrapHead == <<"S", "E", "L", "E", "C", "T", " ", "*", " ", "F", "R", "O", "M", " ",
              "(", " ">>
WrapTail == <<" ", ")", " ", "A", "S", " ", "t", " ", "L", "I", "M", "I", "T", " ">>
            \o T_limit

\* cap = min(limit or settings.max_rows, settings.max_rows); a limit of None
\* or 0 is false.
Min(a, b) == IF a <= b THEN a ELSE b
cap(limit) ==
    Min(IF limit = None \/ limit = Some(0) THEN max_rows ELSE limit[1], max_rows)

\* dict.setdefault(key, value) and dict[key] = value
setdefault(d, key, value) ==
    IF key \in DOMAIN d THEN d
    ELSE [k \in DOMAIN d \cup {key} |-> IF k = key THEN value ELSE d[k]]
setitem(d, key, value) ==
    [k \in DOMAIN d \cup {key} |-> IF k = key THEN value ELSE d[k]]

\* The keys run_sql validates: key.endswith("schema").
schema_keys(params) == {k \in DOMAIN params : EndsWith(k, K_schema)}

\* pool.py is not entered before the statement is final: what run_sql has done
\* when it returns or raises.
NoCall == [kind |-> "none", stage |-> "none", sql |-> None, params |-> None]
Raised(kind, stage) == [kind |-> kind, stage |-> stage, sql |-> None, params |-> None]
Executed(sql, params) ==
    [kind |-> "ok", stage |-> "execute", sql |-> Some(sql), params |-> Some(params)]

\* sqlman.py:88-93: the statement and the parameters handed to cursor.execute.
limited_statement(sql, params, limit) ==
    IF Contains(sql, T_limit)
    THEN Executed(sql, setdefault(params, K_limit, cap(limit)))
    ELSE Executed(WrapHead \o sql \o WrapTail, setitem(params, K_limit, cap(limit)))

\* run_sql(sql_name, params, limit) up to cursor.execute.
run_sql(file, params, limit) ==
    IF file = None THEN Raised("FileNotFoundError", "template")
    ELSE IF disallowed(file[1]) # {} THEN Raised("PermissionError", "template")
    ELSE IF \E k \in schema_keys(params) : ensure_schema_allowed(params[k]) # "ok"
         THEN \* the first offending key decides; the parameter maps of the
              \* model hold at most one key that ends in "schema"
              LET k == CHOOSE k \in schema_keys(params) :
                            ensure_schema_allowed(params[k]) # "ok"
              IN  Raised(ensure_schema_allowed(params[k]), "params")
    ELSE limited_statement(file[1], params, limit)

\* ---- the inputs of the model ----
\* Pieces the template texts are made of.
TemplateTokens == {T_limit, <<"s", ".">>, <<"p", ".">>, <<"P", ".">>, <<"9">>, <<" ">>}
RECURSIVE TemplatesOf(_)
TemplatesOf(n) ==
    IF n = 0 THEN {<<>>}
    ELSE LET shorter == TemplatesOf(n - 1) IN
         shorter \cup {t \o tok : t \in shorter, tok \in TemplateTokens}
Templates == TemplatesOf(MaxTemplateTokens) \ {<<>>}

\* Values a caller gives for a schema parameter.
SchemaValues == {<<"p">>, <<"P">>, <<"s">>, <<"p", "\n">>, <<"p", "-">>, <<>>}
\* One optional parameter whose name has to do with schemas, and an optional
\* parameter "limit" that is larger than every max_rows of the model.
ParamChoices ==
    LET schemaPart == {<<>>} \cup {<<k, v>> : k \in {K_schema, K_src_schema, K_schemas},
                                             v \in SchemaValues}
        withSchema(sp) == IF sp = <<>> THEN <<>> ELSE (sp[1] :> sp[2])
    IN  {withSchema(sp) : sp \in schemaPart}
        \cup {setitem(withSchema(sp), K_limit, MaxRows + MaxLimit + 1) : sp \in schemaPart}

AllowedChoices == {<< <<"p">> >>, << <<"P">>, <<"s">> >>}
LimitChoices == {None} \cup {Some(k) : k \in 0..MaxLimit}
\* Positive values of settings.max_rows.
MaxRowsChoices == 1..MaxRows

InitSql ==
    /\ max_rows \in MaxRowsChoices
    /\ allowed_schemas \in AllowedChoices
    /\ sql_file \in {None} \cup {Some(t) : t \in Templates}
    /\ call_params \in ParamChoices
    /\ call_limit \in LimitChoices
    /\ sql_result = NoCall

\* run_sql is called and returns or raises.
RunSql ==
    /\ sql_result = NoCall
    /\ sql_result' = run_sql(sql_file, call_params, call_limit)
    /\ UNCHANGED <<max_rows, allowed_schemas, sql_file, call_params, call_limit>>

NextSql == RunSql

\* ================================= get_conn with its connect sequence
\* signal.signal and signal.alarm work on the main thread only: run_sql's timed
\* body is run by this worker, the others use get_conn scopes of their own.
MainThread == 1

\* _AUTH_FAILURE_MARKERS
AUTH_FAILURE_MARKERS ==
    {<<"a", "u", "t", "h", "e", "n", "t", "i", "c", "a", "t", "i", "o", "n", " ",
       "f", "a", "i", "l", "e", "d">>,
     <<"p", "a", "s", "s", "w", "o", "r", "d">>,
     <<"i", "n", "v", "a", "l", "i", "d", " ", "c", "r", "e", "d", "e", "n", "t",
       "i", "a", "l", "s">>,
     <<"f", "a", "t", "a", "l", " ", "2", "8", "0", "0", "0">>}

\* What _connect_with_retry raises: VerticaConnectionSetupError for a reason,
\* raised from the last exception, or the last exception itself.
SetupError(reason, exc) ==
    [name |-> "VerticaConnectionSetupError", reason |-> reason, cause |-> exc]
RawError(exc) == [name |-> exc.name, reason |-> "raw", cause |-> exc]
NoError == [worker |-> 0, error |-> RawError(NoExc)]

classify_connection_exception_exact_case(exc) ==
    IF "socket.gaierror" \in exc.bases THEN SetupError("resolve", exc)
    ELSE IF "OSError" \in exc.bases /\ exc.errno = "ENETUNREACH"
         THEN SetupError("unreachable", exc)
    ELSE IF "OSError" \in exc.bases /\ exc.errno = "ECONNREFUSED"
         THEN SetupError("refused", exc)
    ELSE IF /\ "vertica_python.errors.ConnectionError" \in exc.bases
            /\ \E marker \in AUTH_FAILURE_MARKERS : Contains(exc.message, marker)
         THEN SetupError("authentication", exc)
    ELSE RawError(exc)

\* _classify_connection_exception(exc), and the raise at pool.py:313-315.
classify_connection_exception(exc) ==
    IF "socket.gaierror" \in exc.bases THEN SetupError("resolve", exc)
    ELSE IF "OSError" \in exc.bases /\ exc.errno = "ENETUNREACH"
         THEN SetupError("unreachable", exc)
    ELSE IF "OSError" \in exc.bases /\ exc.errno = "ECONNREFUSED"
         THEN SetupError("refused", exc)
    ELSE IF /\ "vertica_python.errors.ConnectionError" \in exc.bases
            /\ \E marker \in AUTH_FAILURE_MARKERS :
                    Contains(Lower(exc.message), marker)
         THEN SetupError("authentication", exc)
    ELSE RawError(exc)

\* The fields each update of the record writes.
F_context == {"max_attempts", "base_backoff_s", "strategy"}
F_failure_head == {"in_progress", "attempts", "last_failure", "last_exception",
                   "last_failure_at", "exhausted"}
F_failure_tail == {"next_retry_in_s", "next_retry_at"}
F_success == {"in_progress", "attempts", "next_retry_in_s", "next_retry_at",
              "exhausted", "recovered_at"}
Stamped(s, fields, w) == [f \in DOMAIN s |-> IF f \in fields THEN w ELSE s[f]]

\* Values of settings.query_timeout_s.
QueryTimeoutChoices == {1, 15}

\* No _connect_with_retry call under way.
NoSeq == [pc |-> "none", attempts |-> 0, backoff |-> 0, attempt |-> 0,
          last_exc |-> NoExc, delay |-> 0]

InitAcquire ==
    /\ cw = [w \in Workers |-> NoSeq]
    /\ getError = NoError
    /\ stamp = [f \in DOMAIN default_retry_state |-> 0]
    /\ query_timeout_s \in QueryTimeoutChoices
    /\ alarm = 0

\* What a step of a connect sequence leaves alone.
ConnFrame ==
    /\ lastExit' = NoExit
    /\ UNCHANGED <<pool_size, POOL, queues, maxsize, closed, qref, drained, raised>>
    /\ UNCHANGED <<connection_attempts, connection_retry_backoff_s, rpc, attempts,
                   backoff, attempt, last_exc, delay, now, atStart, tried, sleeps,
                   outcome>>
    /\ UNCHANGED <<query_timeout_s, alarm>>
    /\ UNCHANGED sqlVars

\* pool.py:322-323, 233-239: the cache was empty, _connect_with_retry is called,
\* reads the settings and writes the context into the record.
ConnBegin(w) ==
    /\ pc[w] = "connect"
    /\ cw[w].pc = "none"
    /\ seqs < MaxSeqs
    /\ seqs' = seqs + 1
    /\ cw' = [cw EXCEPT ![w] = [pc |-> "try",
                                 attempts |-> Max(1, connection_attempts),
                                 backoff |-> connection_retry_backoff_s,
                                 attempt |-> 1,
                                 last_exc |-> NoExc,
                                 delay |-> 0]]
    /\ RETRY_STATE' = update_retry_context(RETRY_STATE, Max(1, connection_attempts),
                                           connection_retry_backoff_s)
    /\ stamp' = Stamped(stamp, F_context, w)
    /\ getError' = NoError
    /\ UNCHANGED <<pc, conn, created>>
    /\ ConnFrame

\* pool.py:240-241, 281-287, 323-325: _new_conn() returns, the success is
\* recorded, the connection is returned and get_conn yields it.
ConnSucceeds(w) ==
    /\ cw[w].pc = "try"
    /\ created < MaxConns
    /\ created' = created + 1
    /\ RETRY_STATE' = record_retry_success(RETRY_STATE, cw[w].attempt, now)
    /\ stamp' = Stamped(stamp, F_success, w)
    /\ conn' = [conn EXCEPT ![w] = created + 1]
    /\ pc' = [pc EXCEPT ![w] = "held"]
    /\ cw' = [cw EXCEPT ![w] = NoSeq]
    /\ getError' = NoError
    /\ UNCHANGED seqs
    /\ ConnFrame

\* pool.py:242-262, 126-139: _new_conn() raises; _record_retry_failure computes
\* the delay and makes its first update of the record. The last attempt of a
\* sequence fails with any exception of ConnectExcs, an earlier one with one of
\* Excs.
ConnFails(w) ==
    /\ cw[w].pc = "try"
    /\ \E exc \in (IF cw[w].attempt = cw[w].attempts THEN ConnectExcs ELSE Excs) :
        /\ cw' = [cw EXCEPT ![w].pc = "recorded",
                            ![w].last_exc = exc,
                            ![w].delay = retry_failure_delay(cw[w].attempt,
                                                             cw[w].attempts,
                                                             cw[w].backoff)]
        /\ RETRY_STATE' = record_retry_failure_head(RETRY_STATE, exc, cw[w].attempt,
                                                    cw[w].attempts, now)
    /\ stamp' = Stamped(stamp, F_failure_head, w)
    /\ getError' = NoError
    /\ UNCHANGED <<pc, conn, created, seqs>>
    /\ ConnFrame

\* pool.py:141-151, 264-280, 289-315: the second update of the record; after the
\* last attempt the loop is left and the classified exception raised out of
\* get_conn, else the worker is about to sleep, or goes on at once when the
\* delay is zero.
ConnFailRecorded(w) ==
    /\ cw[w].pc = "recorded"
    /\ RETRY_STATE' = record_retry_failure_tail(RETRY_STATE, cw[w].attempt,
                                                cw[w].attempts, cw[w].backoff, now)
    /\ stamp' = Stamped(stamp, F_failure_tail, w)
    /\ IF cw[w].attempt = cw[w].attempts
       THEN /\ getError' = [worker |-> w,
                            error |-> classify_connection_exception(cw[w].last_exc)]
            /\ cw' = [cw EXCEPT ![w] = NoSeq]
            /\ pc' = [pc EXCEPT ![w] = "idle"]
       ELSE /\ getError' = NoError
            /\ UNCHANGED pc
            /\ IF cw[w].delay # 0
               THEN cw' = [cw EXCEPT ![w].pc = "sleep"]
               ELSE cw' = [cw EXCEPT ![w].pc = "try", ![w].attempt = @ + 1]
    /\ UNCHANGED <<conn, created, seqs>>
    /\ ConnFrame

\* pool.py:274: time.sleep(delay) is over, the next turn of the loop starts.
ConnSleep(w) ==
    /\ cw[w].pc = "sleep"
    /\ cw' = [cw EXCEPT ![w].pc = "try", ![w].attempt = @ + 1]
    /\ getError' = NoError
    /\ UNCHANGED <<pc, conn, created, seqs, RETRY_STATE, stamp>>
    /\ ConnFrame

\* ---- run_sql's body: with get_conn() as conn, Timeout(...) (sqlman.py:95-100)
\* What a step of the body leaves alone.
BodyFrame ==
    /\ lastExit' = NoExit
    /\ getError' = NoError
    /\ UNCHANGED <<pool_size, POOL, queues, maxsize, created, closed, conn, drained>>
    /\ UNCHANGED <<retryVars, sqlVars, cw, stamp, query_timeout_s>>

\* Timeout.__enter__: the handler is installed and signal.alarm(seconds) called.
RunArm(w) ==
    /\ w = MainThread
    /\ pc[w] = "held"
    /\ alarm' = query_timeout_s
    /\ pc' = [pc EXCEPT ![w] = "exec"]
    /\ UNCHANGED <<qref, raised>>
    /\ BodyFrame

\* cursor.execute and fetchall return.
RunReturns(w) ==
    /\ pc[w] = "exec"
    /\ raised' = [raised EXCEPT ![w] = FALSE]
    /\ pc' = [pc EXCEPT ![w] = "exit"]
    /\ UNCHANGED <<qref, alarm>>
    /\ BodyFrame

\* cursor.execute or fetchall raises a driver error.
RunDriverError(w) ==
    /\ pc[w] = "exec"
    /\ raised' = [raised EXCEPT ![w] = TRUE]
    /\ pc' = [pc EXCEPT ![w] = "exit"]
    /\ UNCHANGED <<qref, alarm>>
    /\ BodyFrame

\* The timer expires: SIGALRM is delivered to the main thread and the handler
\* throws TimeoutError into whatever the body is doing, also when the body is
\* through and Timeout.__exit__ has not yet run.
RunTimeout(w) ==
    /\ w = MainThread
    /\ pc[w] \in {"exec", "exit"}
    /\ alarm # 0
    /\ alarm' = 0
    /\ raised' = [raised EXCEPT ![w] = TRUE]
    /\ pc' = [pc EXCEPT ![w] = "exit"]
    /\ UNCHANGED qref
    /\ BodyFrame

RunDisarm_OnlyOnSuccess(w) ==
    /\ pc[w] = "exit"
    /\ alarm' = IF raised[w] THEN alarm ELSE 0
    /\ pc' = [pc EXCEPT ![w] = "disarmed"]
    /\ UNCHANGED <<qref, raised>>
    /\ BodyFrame

\* Timeout.__exit__: signal.alarm(0).
RunDisarm(w) ==
    /\ pc[w] = "exit"
    /\ alarm' = 0
    /\ pc' = [pc EXCEPT ![w] = "disarmed"]
    /\ UNCHANGED <<qref, raised>>
    /\ BodyFrame

\* get_conn's finally block starts and loads the global _POOL (pool.py:326-328).
RunLeave(w) ==
    /\ pc[w] = "disarmed"
    /\ qref' = [qref EXCEPT ![w] = POOL]
    /\ pc' = [pc EXCEPT ![w] = "put"]
    /\ UNCHANGED <<raised, alarm>>
    /\ BodyFrame

\* The steps of get_conn that are those of the cache.
CacheStep(w) ==
    /\ \/ GetConnEnter(w)
       \/ GetConnPop(w)
       \/ GetConnLeave(w)
       \/ GetConnPut(w)
       \/ GetConnDiscard(w)
    /\ getError' = NoError
    /\ UNCHANGED <<retryVars, sqlVars, cw, stamp, query_timeout_s, alarm>>

\* The workers that take part: a pair, which is what a race of two sequences
\* on the record, or of a connect sequence with a release, takes.
Connectors == {MainThread, MainThread + 1}

NextAcquire ==
    \E w \in Connectors :
        \/ CacheStep(w)
        \/ ConnBegin(w)
        \/ ConnSucceeds(w)
        \/ ConnFails(w)
        \/ ConnFailRecorded(w)
        \/ ConnSleep(w)

\* The steps of get_conn around run_sql's body, the connect sequence taken as
\* one step; a worker that is not the main thread runs bodies of other callers.
ScopeStep(w) ==
    /\ \/ GetConnEnter(w)
       \/ GetConnPop(w)
       \/ GetConnConnected(w)
       \/ GetConnConnectFails(w)
       \/ w # MainThread /\ GetConnLeave(w)
       \/ GetConnPut(w)
       \/ GetConnDiscard(w)
    /\ getError' = NoError
    /\ UNCHANGED <<retryVars, sqlVars, cw, stamp, query_timeout_s, alarm>>

NextBody ==
    \E w \in Workers :
        \/ ScopeStep(w)
        \/ RunArm(w)
        \/ RunReturns(w)
        \/ RunDriverError(w)
        \/ RunTimeout(w)
        \/ RunDisarm(w)
        \/ RunLeave(w)

\* ====================================================== Settings (config.py)
\* text.split(sep) for a separator of one character.
RECURSIVE Split(_, _)
Split(text, sep) ==
    IF \A i \in DOMAIN text : text[i] # sep THEN <<text>>
    ELSE LET i == CHOOSE i \in DOMAIN text :
                      text[i] = sep /\ \A j \in 1..(i - 1) : text[j] # sep
         IN  <<SubSeq(text, 1, i - 1)>> \o Split(SubSeq(text, i + 1, Len(text)), sep)

\* Value of a text of decimal digits, read left to right.
DigitValue(c) ==
    CASE c = "0" -> 0 [] c = "1" -> 1 [] c = "2" -> 2 [] c = "3" -> 3 [] c = "4" -> 4
      [] c = "5" -> 5 [] c = "6" -> 6 [] c = "7" -> 7 [] c = "8" -> 8 [] c = "9" -> 9
RECURSIVE DigitsValue(_, _)
DigitsValue(text, acc) ==
    IF text = <<>> THEN acc
    ELSE DigitsValue(Tail(text), 10 * acc + DigitValue(Head(text)))
AllDigits(text) == text # <<>> /\ \A i \in DOMAIN text : text[i] \in Digits

\* int(value) on a str: white space around the number is dropped, one sign is
\* allowed, the rest has to be decimal digits. None stands for ValueError.
\* (Digit-group underscores and non-ASCII digits are not in the model's texts.)
ParseInt(value) ==
    LET s == Strip(value)
        signed == s # <<>> /\ Head(s) \in {"+", "-"}
        body == IF signed THEN Tail(s) ELSE s
    IN  IF ~AllDigits(body) THEN None
        ELSE IF signed /\ Head(s) = "-" THEN Some(0 - DigitsValue(body, 0))
        ELSE Some(DigitsValue(body, 0))

\* float(value) on a str, in millionths: sign, digits, and an optional point
\* followed by up to six digits, one digit at least. None stands for ValueError.
\* (Exponents, "inf" and "nan" are not in the model's texts.)
RECURSIVE Pow10(_)
Pow10(n) == IF n <= 0 THEN 1 ELSE 10 * Pow10(n - 1)
ParseFloat(value) ==
    LET s == Strip(value)
        signed == s # <<>> /\ Head(s) \in {"+", "-"}
        body == IF signed THEN Tail(s) ELSE s
        parts == Split(body, ".")
        whole == parts[1]
        frac == IF Len(parts) = 2 THEN parts[2] ELSE <<>>
        wellFormed ==
            /\ Len(parts) <= 2
            /\ \A i \in DOMAIN whole : whole[i] \in Digits
            /\ \A i \in DOMAIN frac : frac[i] \in Digits
            /\ whole \o frac # <<>>
            /\ Len(frac) <= 6
        micros == DigitsValue(whole, 0) * 1000000
                  + DigitsValue(frac, 0) * Pow10(6 - Len(frac))
    IN  IF ~wellFormed THEN None
        ELSE IF signed /\ Head(s) = "-" THEN Some(0 - micros)
        ELSE Some(micros)

\* DEFAULT_DB_HOST .. DEFAULT_DB_NAME
DEFAULT_DB_HOST == <<"1", "2", "7", ".", "0", ".", "0", ".", "1">>
DEFAULT_DB_PORT == 5433
DEFAULT_DB_USER == <<"m", "c", "p", "_", "a", "p", "p">>
DEFAULT_DB_PASSWORD == <<"c", "h", "a", "n", "g", "e", "-", "m", "e", "-",
                         "p", "l", "e", "a", "s", "e">>
DEFAULT_DB_NAME == <<"v", "e", "r", "t", "i", "c", "a">>

\* os.environ as far as Settings reads it: for every key the value of the
\* variable of that name and the value of the variable MCP_<key>, None when unset.
EnvKeys == {"DB_HOST", "DB_PORT", "DB_USER", "DB_PASSWORD", "DB_NAME", "MAX_ROWS",
            "QUERY_TIMEOUT_S", "POOL_SIZE", "DB_CONNECTION_RETRIES",
            "DB_CONNECTION_RETRY_BACKOFF_S", "ALLOWED_SCHEMAS", "DB_BACKUP_NODES",
            "DB_TLSMODE", "DB_USE_SSL"}

\* _env(key): the variable itself, MCP_<key> when it is unset; a blank value
\* counts as unset.
env(e, key) ==
    LET value == IF e[key].plain # None THEN e[key].plain ELSE e[key].mcp
    IN  IF value = None THEN None
        ELSE IF Strip(value[1]) = <<>> THEN None
        ELSE value

\* _env_or_default(key, default)
env_or_default(e, key, default) ==
    IF env(e, key) = None THEN default ELSE env(e, key)[1]

\* A parser that lets an unparseable text through as 0 instead of the default.
env_int_or_default_zero_on_invalid(e, key, default) ==
    IF env(e, key) = None THEN default
    ELSE IF ParseInt(env(e, key)[1]) = None THEN 0
    ELSE ParseInt(env(e, key)[1])[1]

\* _env_int_or_default(key, default)
env_int_or_default(e, key, default) ==
    IF env(e, key) = None THEN default
    ELSE IF ParseInt(env(e, key)[1]) = None THEN default
    ELSE ParseInt(env(e, key)[1])[1]

\* _env_float_or_default(key, default), in millionths
env_float_or_default(e, key, default) ==
    IF env(e, key) = None THEN default
    ELSE IF ParseFloat(env(e, key)[1]) = None THEN default
    ELSE ParseFloat(env(e, key)[1])[1]

\* _split_csv(value, fallback)
split_csv(value, fallback) ==
    IF value = None \/ value = Some(<<>>) THEN fallback
    ELSE LET items == Split(value[1], ",") IN
         SelectSeq([i \in DOMAIN items |-> Strip(items[i])], LAMBDA item : item # <<>>)

\* What a parser or validator gives: a value, or the error it raises.
Ok(value) == [ok |-> TRUE, value |-> value]
Err(kind) == [ok |-> FALSE, value |-> kind]

\* str.rsplit(":", 1) on a text that holds a colon.
LastColon(text) == CHOOSE i \in DOMAIN text :
                       text[i] = ":" /\ \A j \in (i + 1)..Len(text) : text[j] # ":"

\* One entry of DB_BACKUP_NODES, stripped and not empty (config.py:168-196).
parse_backup_node(candidate) ==
    IF \E i \in DOMAIN candidate : candidate[i] = ":"
    THEN LET host == Strip(SubSeq(candidate, 1, LastColon(candidate) - 1))
             port_text == Strip(SubSeq(candidate, LastColon(candidate) + 1,
                                       Len(candidate)))
         IN  IF host = <<>> THEN Err("ValueError")
             ELSE IF port_text = <<>> THEN Err("ValueError")
             ELSE IF ParseInt(port_text) = None THEN Err("ValueError")
             ELSE IF ~(1 <= ParseInt(port_text)[1] /\ ParseInt(port_text)[1] <= 65535)
                  THEN Err("ValueError")
             ELSE Ok(<<host, ParseInt(port_text)[1]>>)
    ELSE Ok(<<candidate, DEFAULT_DB_PORT>>)

\* _parse_backup_nodes(raw)
parse_backup_nodes(raw) ==
    IF raw = None \/ raw = Some(<<>>) THEN Ok(<<>>)
    ELSE LET entries == Split(raw[1], ",")
             candidates == SelectSeq([i \in DOMAIN entries |-> Strip(entries[i])],
                                     LAMBDA c : c # <<>>)
             parsed == [i \in DOMAIN candidates |-> parse_backup_node(candidates[i])]
         IN  IF \E i \in DOMAIN parsed : ~parsed[i].ok THEN Err("ValueError")
             ELSE Ok([i \in DOMAIN parsed |-> parsed[i].value])

\* Words the validators compare with.
W_1 == <<"1">>
W_0 == <<"0">>
W_true == <<"t", "r", "u", "e">>
W_false == <<"f", "a", "l", "s", "e">>
W_yes == <<"y", "e", "s">>
W_no == <<"n", "o">>
W_on == <<"o", "n">>
W_off == <<"o", "f", "f">>
W_disable == <<"d", "i", "s", "a", "b", "l", "e">>
W_allow == <<"a", "l", "l", "o", "w">>
W_prefer == <<"p", "r", "e", "f", "e", "r">>
W_require == <<"r", "e", "q", "u", "i", "r", "e">>
W_verify_ca == <<"v", "e", "r", "i", "f", "y", "-", "c", "a">>
W_verify_full == <<"v", "e", "r", "i", "f", "y", "-", "f", "u", "l", "l">>
W_public == <<"p", "u", "b", "l", "i", "c">>

\* Settings._validate_tls_mode
validate_tls_mode(value) ==
    IF value = None THEN Ok(None)
    ELSE LET candidate == Lower(Strip(value[1])) IN
         IF candidate = <<>> THEN Ok(None)
         ELSE IF candidate \notin {W_disable, W_allow, W_prefer, W_require,
                                   W_verify_ca, W_verify_full}
              THEN Err("ValueError")
         ELSE Ok(Some(candidate))

\* Settings._validate_use_ssl
validate_use_ssl(value) ==
    IF value = None THEN Ok(None)
    ELSE LET candidate == Lower(Strip(value[1])) IN
         IF candidate = <<>> THEN Ok(None)
         ELSE IF candidate \in {W_1, W_true, W_yes, W_on} THEN Ok(Some(TRUE))
         ELSE IF candidate \in {W_0, W_false, W_no, W_off} THEN Ok(Some(FALSE))
         ELSE Err("ValueError")

\* Settings._validate_backup_nodes on the list the default factory built.
validate_backup_nodes(value) ==
    IF \E i \in DOMAIN value : Strip(value[i][1]) = <<>> THEN Err("ValueError")
    ELSE IF \E i \in DOMAIN value : ~(1 <= value[i][2] /\ value[i][2] <= 65535)
         THEN Err("ValueError")
    ELSE Ok([i \in DOMAIN value |-> <<Strip(value[i][1]), value[i][2]>>])

\* Settings._validate_schemas
validate_schemas(value) == IF value = <<>> THEN Err("ValueError") ELSE Ok(value)

\* The fields of Settings in the order of their declaration, which is the
\* order of model_dump(). (http_token, cors_origins, db_debug_logging and the
\* TLS file paths never fail validation and are read by none of the modelled
\* code; they are left out.)
FieldOrder == <<"host", "port", "user", "password", "database", "max_rows",
                "query_timeout_s", "pool_size", "connection_attempts",
                "connection_retry_backoff_s", "allowed_schemas", "backup_nodes",
                "tls_mode", "use_ssl">>
DatabaseKeys == <<"host", "port", "user", "password", "database">>

\* Field by field what Settings() computes from the environment e: the default
\* factory's value run through the field's validators and constraints.
FieldResults(e) ==
    [host |-> Ok(env_or_default(e, "DB_HOST", DEFAULT_DB_HOST)),
     port |-> Ok(env_int_or_default(e, "DB_PORT", DEFAULT_DB_PORT)),
     user |-> Ok(env_or_default(e, "DB_USER", DEFAULT_DB_USER)),
     password |-> Ok(env_or_default(e, "DB_PASSWORD", DEFAULT_DB_PASSWORD)),
     database |-> Ok(env_or_default(e, "DB_NAME", DEFAULT_DB_NAME)),
     max_rows |-> Ok(env_int_or_default(e, "MAX_ROWS", 1000)),
     query_timeout_s |-> Ok(env_int_or_default(e, "QUERY_TIMEOUT_S", 15)),
     pool_size |-> Ok(env_int_or_default(e, "POOL_SIZE", 8)),
     connection_attempts |->
        LET n == env_int_or_default(e, "DB_CONNECTION_RETRIES", 3) IN
        IF n >= 1 THEN Ok(n) ELSE Err("ValueError"),
     connection_retry_backoff_s |->
        LET b == env_float_or_default(e, "DB_CONNECTION_RETRY_BACKOFF_S", 500000) IN
        IF b >= 0 THEN Ok(b) ELSE Err("ValueError"),
     allowed_schemas |->
        validate_schemas(split_csv(env(e, "ALLOWED_SCHEMAS"), <<W_public>>)),
     backup_nodes |->
        LET parsed == parse_backup_nodes(env(e, "DB_BACKUP_NODES")) IN
        IF parsed.ok THEN validate_backup_nodes(parsed.value) ELSE parsed,
     tls_mode |-> validate_tls_mode(env(e, "DB_TLSMODE")),
     use_ssl |-> validate_use_ssl(env(e, "DB_USE_SSL"))]

\* A pydantic model from the results of its fields: the values, or the names
\* of the fields that failed.
Validated(results) ==
    IF \E f \in DOMAIN results : ~results[f].ok
    THEN Err({f \in DOMAIN results : ~results[f].ok})
    ELSE Ok([f \in DOMAIN results |-> results[f].value])

\* Settings.model_post_init on a model that validated.
model_post_init(built) ==
    IF ~built.ok THEN built
    ELSE Ok([f \in DOMAIN built.value \cup {"database_source"} |->
                IF f = "database_source" THEN "environment" ELSE built.value[f]])

\* Settings(): the new object, or the names of the fields that made
\* construction fail. (The fields are computed once, then validated.)
Settings(e) ==
    CHOOSE s \in {model_post_init(built) :
                    built \in {Validated(results) : results \in {FieldResults(e)}}} : TRUE

\* DatabaseOverrides._coerce_non_empty
coerce_non_empty(value) ==
    IF value = None THEN Err("ValueError")
    ELSE IF Strip(value[1]) = <<>> THEN Err("ValueError")
    ELSE Ok(Strip(value[1]))

\* A port check that lets every integer through.
override_port_unchecked(value) == Ok(value)

\* DatabaseOverrides.port: Field(ge=1, le=65535)
override_port(value) ==
    IF 1 <= value /\ value <= 65535 THEN Ok(value) ELSE Err("ValueError")

\* DatabaseOverrides(**raw): the validated model, or the fields that failed.
DatabaseOverrides(raw) ==
    Validated([host |-> coerce_non_empty(raw.host),
               port |-> override_port(raw.port),
               user |-> coerce_non_empty(raw.user),
               password |-> coerce_non_empty(raw.password),
               database |-> coerce_non_empty(raw.database)])

\* ---- the environments of the model ----
Unset == [plain |-> None, mcp |-> None]
Plain(text) == [plain |-> Some(text), mcp |-> None]
\* The five database variables set, everything else unset.
BaseEnv ==
    [k \in EnvKeys |->
        CASE k = "DB_HOST" -> Plain(<<"h">>)
          [] k = "DB_PORT" -> Plain(<<"5", "4", "4", "4">>)
          [] k = "DB_USER" -> Plain(<<"u">>)
          [] k = "DB_PASSWORD" -> Plain(<<"s">>)
          [] k = "DB_NAME" -> Plain(<<"d">>)
          [] OTHER -> Unset]
\* One variable and its MCP_ alias, as an operator may set them.
EnvEdits ==
    {<<"DB_HOST", None, None>>,
     <<"DB_HOST", None, Some(<<"g">>)>>,
     <<"DB_HOST", Some(<<" ">>), Some(<<"g">>)>>,
     <<"DB_PORT", None, None>>,
     <<"DB_PORT", Some(<<"0">>), None>>,
     <<"DB_PORT", Some(<<"x">>), None>>,
     <<"DB_PORT", Some(<<" ", "7", "0", "\n">>), None>>,
     <<"DB_PORT", Some(<<"6", "5", "5", "3", "6">>), None>>,
     <<"DB_PORT", Some(<<"-", "1">>), None>>,
     <<"DB_PORT", None, Some(<<"7", "1">>)>>,
     <<"DB_PASSWORD", None, None>>,
     <<"MAX_ROWS", Some(<<"0">>), None>>,
     <<"MAX_ROWS", Some(<<"5">>), None>>,
     <<"MAX_ROWS", Some(<<"x">>), None>>,
     <<"QUERY_TIMEOUT_S", Some(<<"0">>), None>>,
     <<"QUERY_TIMEOUT_S", Some(<<"-", "3">>), None>>,
     <<"QUERY_TIMEOUT_S", Some(<<"1", ".", "5">>), None>>,
     <<"POOL_SIZE", Some(<<"0">>), None>>,
     <<"POOL_SIZE", Some(<<"2">>), None>>,
     <<"POOL_SIZE", Some(<<"x">>), None>>,
     <<"DB_CONNECTION_RETRIES", Some(<<"0">>), None>>,
     <<"DB_CONNECTION_RETRIES", Some(<<"-", "1">>), None>>,
     <<"DB_CONNECTION_RETRIES", Some(<<"2">>), None>>,
     <<"DB_CONNECTION_RETRIES", Some(<<"x">>), None>>,
     <<"DB_CONNECTION_RETRIES", Some(<<" ">>), None>>,
     <<"DB_CONNECTION_RETRY_BACKOFF_S", Some(<<"-", "1">>), None>>,
     <<"DB_CONNECTION_RETRY_BACKOFF_S", Some(<<"-", "0", ".", "5">>), None>>,
     <<"DB_CONNECTION_RETRY_BACKOFF_S", Some(<<"0">>), None>>,
     <<"DB_CONNECTION_RETRY_BACKOFF_S", Some(<<"1", ".", "2", "5">>), None>>,
     <<"DB_CONNECTION_RETRY_BACKOFF_S", Some(<<"x">>), None>>,
     <<"DB_CONNECTION_RETRY_BACKOFF_S", Some(<<"\t">>), None>>,
     <<"ALLOWED_SCHEMAS", Some(<<",">>), None>>,
     <<"ALLOWED_SCHEMAS", Some(<<"p", ",", "s">>), None>>,
     <<"ALLOWED_SCHEMAS", Some(<<" ", ",", " ">>), None>>,
     <<"ALLOWED_SCHEMAS", Some(<<"p">>), None>>,
     <<"DB_BACKUP_NODES", Some(<<"b">>), None>>,
     <<"DB_BACKUP_NODES", Some(<<"b", ":">>), None>>,
     <<"DB_BACKUP_NODES", Some(<<":", "7">>), None>>,
     <<"DB_BACKUP_NODES", Some(<<"b", ":", "7", "0", "0", "0", "0">>), None>>,
     <<"DB_BACKUP_NODES", Some(<<"b", ":", "x">>), None>>,
     <<"DB_BACKUP_NODES", Some(<<"b", ":", "7">>), None>>,
     <<"DB_BACKUP_NODES", Some(<<"b", ":", "7", ",", "c">>), None>>,
     <<"DB_BACKUP_NODES", Some(<<"b", ":", "0">>), None>>,
     <<"DB_BACKUP_NODES", Some(<<",">>), None>>,
     <<"DB_BACKUP_NODES", Some(<<" ", ":", "7">>), None>>,
     <<"DB_TLSMODE", Some(<<"R", "e", "q", "u", "i", "r", "e">>), None>>,
     <<"DB_TLSMODE", Some(<<"b", "o", "g", "u", "s">>), None>>,
     <<"DB_USE_SSL", Some(<<"o", "n">>), None>>,
     <<"DB_USE_SSL", Some(<<"m", "a", "y", "b", "e">>), None>>}
Edited(ed) == [BaseEnv EXCEPT ![ed[1]] = [plain |-> ed[2], mcp |-> ed[3]]]
EnvChoices == {BaseEnv} \cup {Edited(ed) : ed \in EnvEdits}
\* The environments a running process is moved to.
LaterEnvs ==
    {BaseEnv} \cup {Edited(ed) : ed \in {<<"DB_PORT", None, None>>,
                                         <<"DB_HOST", None, Some(<<"g">>)>>,
                                         <<"POOL_SIZE", Some(<<"0">>), None>>,
                                         <<"DB_CONNECTION_RETRIES", Some(<<"0">>), None>>,
                                         <<"DB_BACKUP_NODES", Some(<<"b">>), None>>,
                                         <<"DB_BACKUP_NODES", Some(<<"b", ":", "x">>), None>>}}
\* The environments the unsynchronised readers are watched under.
FewEnvs == {BaseEnv, [BaseEnv EXCEPT !["DB_PORT"] = Unset, !["DB_HOST"] = Unset]}

\* What a caller passes to DatabaseOverrides: a runtime target with one field
\* that may be anything.
RawOverrides(host, port) ==
    [host |-> host, port |-> port, user |-> Some(<<"r">>),
     password |-> Some(<<"w">>), database |-> Some(<<"m">>)]
OverrideChoices ==
    {RawOverrides(host, port) :
        host \in {Some(<<"g">>), Some(<<" ", "g", " ">>), Some(<<" ">>), None},
        port \in {0, 6000, 65535, 65536}}
FewOverrides == {RawOverrides(Some(<<"g">>), 6000)}

\* ---- the Settings object and the operations on it ----
\* The five connection fields of a Settings-like record.
Target(s) == <<s.host, s.port, s.user, s.password, s.database>>

NoOptions == [k \in {} |-> 0]

InitSettings ==
    /\ settings = None
    /\ cfg_pc = "import"
    /\ cfg_src = None
    /\ cfg_keys = <<>>
    /\ cfg_before = None
    /\ cfg_done = "none"
    /\ cfg_arg = None
    /\ cfg_prev = "none"
    /\ rd_pc = 0
    /\ rd_opts = NoOptions
    /\ rd_seen = {}

ReaderFrame == UNCHANGED <<rd_pc, rd_opts>>

\* The targets a reader that is under way may be told of without any mixing:
\* the one a new update is about to install joins them.
SeenWith(target) == IF rd_pc \in 1..Len(DatabaseKeys) THEN rd_seen \cup {target} ELSE rd_seen

\* config.py:480-485: the module builds its Settings object, or the import
\* fails and the process ends.
SettingsInit ==
    /\ cfg_pc = "import"
    /\ \E built \in {Settings(environ)} :
        /\ settings' = IF built.ok THEN Some(built.value) ELSE None
        /\ cfg_pc' = IF built.ok THEN "idle" ELSE "failed"
        /\ cfg_done' = IF built.ok THEN "construct" ELSE "failed"
    /\ UNCHANGED <<environ, cfg_src, cfg_keys, cfg_before, cfg_arg, cfg_prev, rd_seen>>
    /\ ReaderFrame

\* The environment of the process changes between two operations.
EnvChange ==
    /\ cfg_pc = "idle"
    /\ environ' \in LaterEnvs \ {environ}
    /\ cfg_done' = "none"
    /\ cfg_prev' = "none"
    /\ UNCHANGED <<settings, cfg_pc, cfg_src, cfg_keys, cfg_before, cfg_arg, rd_seen>>
    /\ ReaderFrame

\* The caller's DatabaseOverrides(...) raises: apply_database_overrides is
\* never entered.
OverridesRejected(raw) ==
    /\ cfg_pc = "idle"
    /\ ~DatabaseOverrides(raw).ok
    /\ cfg_done' = "rejected"
    /\ cfg_arg' = Some(raw)
    /\ cfg_prev' = "none"
    /\ UNCHANGED <<environ, settings, cfg_pc, cfg_src, cfg_keys, cfg_before, rd_seen>>
    /\ ReaderFrame

\* apply_database_overrides, config.py:426-427: data and the updated copy.
ApplyBegin(raw) ==
    /\ cfg_pc = "idle"
    /\ \E overrides \in {DatabaseOverrides(raw)} :
        /\ overrides.ok
        /\ \E updated \in {[f \in DOMAIN settings[1] |->
                                IF f \in DOMAIN overrides.value
                                THEN overrides.value[f] ELSE settings[1][f]]} :
            /\ cfg_src' = Some(updated)
            /\ rd_seen' = SeenWith(Target(updated))
    /\ cfg_keys' = DatabaseKeys
    /\ cfg_before' = settings
    /\ cfg_arg' = Some(raw)
    /\ cfg_prev' = IF cfg_done = "apply" THEN "apply" ELSE "none"
    /\ cfg_pc' = "apply"
    /\ cfg_done' = "none"
    /\ UNCHANGED <<environ, settings>>
    /\ ReaderFrame

\* One object.__setattr__(self, key, ...) of either loop (config.py:429-430
\* and 439-440).
SetNextKey ==
    /\ cfg_pc \in {"apply", "reload"}
    /\ cfg_keys # <<>>
    /\ settings' = Some([settings[1] EXCEPT ![Head(cfg_keys)] = cfg_src[1][Head(cfg_keys)]])
    /\ cfg_keys' = Tail(cfg_keys)
    /\ cfg_done' = "none"
    /\ UNCHANGED <<environ, cfg_pc, cfg_src, cfg_before, cfg_arg, cfg_prev, rd_seen>>
    /\ ReaderFrame

\* config.py:432
ApplyFinish ==
    /\ cfg_pc = "apply"
    /\ cfg_keys = <<>>
    /\ settings' = Some([settings[1] EXCEPT !.database_source = "runtime"])
    /\ cfg_pc' = "idle"
    /\ cfg_src' = None
    /\ cfg_before' = None
    /\ cfg_done' = "apply"
    /\ UNCHANGED <<environ, cfg_keys, cfg_arg, cfg_prev, rd_seen>>
    /\ ReaderFrame

\* A reload that forgets the runtime override before it builds the new object.
ReloadFails_ForgetsOverride ==
    /\ cfg_pc = "idle"
    /\ ~Settings(environ).ok
    /\ settings' = Some([settings[1] EXCEPT !.database_source = "environment"])
    /\ cfg_done' = "failed"
    /\ cfg_arg' = None
    /\ cfg_prev' = "none"
    /\ UNCHANGED <<environ, cfg_pc, cfg_src, cfg_keys, cfg_before, rd_seen>>
    /\ ReaderFrame

\* reload_from_environment, config.py:437: type(self)() raises and nothing is
\* touched.
ReloadFails ==
    /\ cfg_pc = "idle"
    /\ ~Settings(environ).ok
    /\ cfg_done' = "failed"
    /\ cfg_arg' = None
    /\ cfg_prev' = "none"
    /\ UNCHANGED <<environ, settings, cfg_pc, cfg_src, cfg_keys, cfg_before, rd_seen>>
    /\ ReaderFrame

\* config.py:437: refreshed = type(self)()
ReloadBegin ==
    /\ cfg_pc = "idle"
    /\ \E refreshed \in {Settings(environ)} :
        /\ refreshed.ok
        /\ cfg_src' = Some(refreshed.value)
        /\ rd_seen' = SeenWith(Target(refreshed.value))
    /\ cfg_keys' = FieldOrder
    /\ cfg_before' = settings
    /\ cfg_arg' = None
    /\ cfg_prev' = IF cfg_done = "apply" THEN "apply" ELSE "none"
    /\ cfg_pc' = "reload"
    /\ cfg_done' = "none"
    /\ UNCHANGED <<environ, settings>>
    /\ ReaderFrame

\* A reload that leaves the source of the database settings as it finds it.
ReloadFinish_KeepsSource ==
    /\ cfg_pc = "reload"
    /\ cfg_keys = <<>>
    /\ cfg_pc' = "idle"
    /\ cfg_src' = None
    /\ cfg_before' = None
    /\ cfg_done' = "reload"
    /\ UNCHANGED <<environ, settings, cfg_keys, cfg_arg, cfg_prev, rd_seen>>
    /\ ReaderFrame

\* config.py:442
ReloadFinish ==
    /\ cfg_pc = "reload"
    /\ cfg_keys = <<>>
    /\ settings' = Some([settings[1] EXCEPT
                           !.database_source = cfg_src[1].database_source])
    /\ cfg_pc' = "idle"
    /\ cfg_src' = None
    /\ cfg_before' = None
    /\ cfg_done' = "reload"
    /\ UNCHANGED <<environ, cfg_keys, cfg_arg, cfg_prev, rd_seen>>
    /\ ReaderFrame

WriterFrame ==
    UNCHANGED <<environ, settings, cfg_pc, cfg_src, cfg_keys, cfg_before, cfg_done,
                cfg_arg, cfg_prev>>

\* vertica_connection_options(), config.py:447-452, on another thread: the
\* dictionary is built one attribute read after the other.
ReadBegin ==
    /\ cfg_pc \in {"idle", "apply", "reload"}
    /\ rd_pc = 0
    /\ rd_pc' = 1
    /\ rd_opts' = NoOptions
    /\ rd_seen' = {Target(settings[1])}
                  \cup (IF cfg_pc = "idle" THEN {}
                        ELSE {Target(cfg_before[1]), Target(cfg_src[1])})
    /\ WriterFrame

ReadField ==
    /\ rd_pc \in 1..Len(DatabaseKeys)
    /\ LET key == DatabaseKeys[rd_pc] IN
       rd_opts' = [k \in DOMAIN rd_opts \cup {key} |->
                      IF k = key THEN settings[1][key] ELSE rd_opts[k]]
    /\ rd_pc' = rd_pc + 1
    /\ UNCHANGED rd_seen
    /\ WriterFrame

\* The options are handed to vertica_python.connect (pool.py:228-229).
ReadEnd ==
    /\ rd_pc = Len(DatabaseKeys) + 1
    /\ rd_pc' = 0
    /\ UNCHANGED <<rd_opts, rd_seen>>
    /\ WriterFrame

\* The operations on the Settings object, one caller at a time.
NextSettings ==
    \/ SettingsInit
    \/ EnvChange
    \/ \E raw \in OverrideChoices : OverridesRejected(raw)
    \/ \E raw \in OverrideChoices : ApplyBegin(raw)
    \/ SetNextKey
    \/ ApplyFinish
    \/ ReloadFails
    \/ ReloadBegin
    \/ ReloadFinish

\* One caller updating the object while another thread reads it.
NextSettingsRace ==
    \/ SettingsInit
    \/ \E raw \in FewOverrides : ApplyBegin(raw)
    \/ SetNextKey
    \/ ApplyFinish
    \/ ReloadBegin
    \/ ReloadFinish
    \/ ReadBegin
    \/ ReadField
    \/ ReadEnd

\* ====================================================== ranked_multi
\* Template names, as the path components under SQL_DIR.
N_one == <<"one.sql">>
N_deep == <<"more", "one.sql">>
N_secret == <<"secret.sql">>
N_missing == <<"missing.sql">>
\* Path(...).name
PathName(sql_name) == sql_name[Len(sql_name)]

\* The files under SQL_DIR: a template that holds :limit, one that does not,
\* one that names a schema outside the allowlist, and a name with no file.
SqlDir ==
    [n \in {N_one, N_deep, N_secret, N_missing} |->
        CASE n = N_one -> Some(<<"p", ".">> \o T_limit)
          [] n = N_deep -> Some(<<"p", ".", " ">>)
          [] n = N_secret -> Some(<<"s", ".">>)
          [] n = N_missing -> None]

\* Provenance as far as it depends on the call (as_of_ts and duration_ms are
\* clock readings).
Provenance(sql_or_view, params, row_count) ==
    [sql_or_view |-> sql_or_view, params |-> params, row_count |-> row_count]

\* A Provenance that records the parameters the caller passed.
run_sql_provenance_of_call(sql_name, params, bound, rows) ==
    Provenance(PathName(sql_name), params, Len(rows))

\* sqlman.py:102-108: the Provenance of a call whose statement was executed
\* with the parameters bound.params and fetched rows.
run_sql_provenance(sql_name, params, bound, rows) ==
    Provenance(PathName(sql_name), bound.params[1], Len(rows))

\* ---- the insertion-ordered dict scores, as a sequence of <<key, score>> ----
HasKey(scores, key) == \E i \in DOMAIN scores : scores[i][1] = key
ScoreOf(scores, key) == scores[CHOOSE i \in DOMAIN scores : scores[i][1] = key][2]

\* A merge that starts every key at 0.0.
merge_row_from_zero(scores, row) ==
    IF row = <<>> THEN scores
    ELSE LET key == row[1]
             score == IF Len(row) > 1 THEN row[2] ELSE 0
             best == Max(IF HasKey(scores, key) THEN ScoreOf(scores, key) ELSE 0,
                         score)
         IN  IF HasKey(scores, key)
             THEN [i \in DOMAIN scores |->
                      IF scores[i][1] = key THEN <<key, best>> ELSE scores[i]]
             ELSE Append(scores, <<key, best>>)

\* sqlman.py:119-124 for one row. float() of a number keeps its value; the
\* scores of the model are whole numbers.
merge_row(scores, row) ==
    IF row = <<>> THEN scores
    ELSE LET key == row[1]
             score == IF Len(row) > 1 THEN row[2] ELSE 0
             best == Max(IF HasKey(scores, key) THEN ScoreOf(scores, key) ELSE score,
                         score)
         IN  IF HasKey(scores, key)
             THEN [i \in DOMAIN scores |->
                      IF scores[i][1] = key THEN <<key, best>> ELSE scores[i]]
             ELSE Append(scores, <<key, best>>)

RECURSIVE merge_rows(_, _)
merge_rows(scores, rows) ==
    IF rows = <<>> THEN scores
    ELSE merge_rows(merge_row(scores, Head(rows)), Tail(rows))

\* sorted(items, key=score, reverse=True): a stable sort, equal scores keep
\* the order they come in. Insertion of one item into a sorted sequence.
InsertRanked(sorted, item) ==
    LET before == {i \in DOMAIN sorted : sorted[i][2] >= item[2]}
        n == Cardinality(before)
    IN  SubSeq(sorted, 1, n) \o <<item>> \o SubSeq(sorted, n + 1, Len(sorted))
RECURSIVE SortedByScore(_, _)
SortedByScore(items, sorted) ==
    IF items = <<>> THEN sorted
    ELSE SortedByScore(Tail(items), InsertRanked(sorted, Head(items)))

\* seq[:k] for k >= 0
Prefix(seq, k) == SubSeq(seq, 1, Min(k, Len(seq)))

\* sqlman.py:126
ranked(scores, k) == Prefix(SortedByScore(scores, <<>>), k)

\* ---- the inputs of the model ----
\* Rows a cursor returns: (key, score), (key,) and the empty row.
RowChoices == {<<>>, <<"a">>, <<"a", -1>>, <<"a", 2>>, <<"b", 2>>}
RowLists == {<<>>} \cup {<<r>> : r \in RowChoices}
            \cup {<<r1, r2>> : r1 \in RowChoices, r2 \in RowChoices}
\* Sub-queries: two that pass validation and two that do not.
QueryChoices == {<<N_one, (K_schema :> <<"p">>)>>,
                 <<N_deep, (K_limit :> MaxRows + MaxLimit + 1)>>,
                 <<N_secret, (K_schema :> <<"p">>)>>,
                 <<N_missing, (K_schema :> <<"p">>)>>}
RECURSIVE QueryListsOf(_)
QueryListsOf(n) ==
    IF n = 0 THEN {<<>>}
    ELSE LET shorter == QueryListsOf(n - 1) IN
         shorter \cup {Append(l, q) : l \in shorter, q \in QueryChoices}

InitRanked ==
    /\ rk_queries \in QueryListsOf(MaxQueries)
    /\ rk_k \in 1..MaxK
    /\ db_rows \in [{N_one, N_deep} -> RowLists]
    /\ rk_pc = "loop"
    /\ rk_i = 1
    /\ rk_scores = <<>>
    /\ rk_provenances = <<>>
    /\ rk_calls = <<>>
    /\ rk_exec = <<>>
    /\ rk_result = None
    /\ rk_error = None

\* The run_sql call of the iteration under way (sqlman.py:117), up to
\* cursor.execute.
RankedCall == [sql_name |-> rk_queries[rk_i][1], params |-> rk_queries[rk_i][2],
               limit |-> Some(rk_k)]
RankedBound == run_sql(SqlDir[RankedCall.sql_name], RankedCall.params, RankedCall.limit)

\* A loop that swallows the error of a sub-query and goes on with the next.
RankedCallRejected_Suppressed ==
    /\ rk_pc = "loop"
    /\ rk_i <= Len(rk_queries)
    /\ RankedBound.kind # "ok"
    /\ rk_calls' = Append(rk_calls, RankedCall)
    /\ rk_i' = rk_i + 1
    /\ UNCHANGED <<rk_queries, rk_k, db_rows, rk_pc, rk_scores, rk_provenances,
                   rk_exec, rk_result, rk_error>>

\* run_sql raises before it has a statement: the error leaves ranked_multi.
RankedCallRejected ==
    /\ rk_pc = "loop"
    /\ rk_i <= Len(rk_queries)
    /\ RankedBound.kind # "ok"
    /\ rk_calls' = Append(rk_calls, RankedCall)
    /\ rk_pc' = "raised"
    /\ rk_error' = Some(RankedBound.kind)
    /\ UNCHANGED <<rk_queries, rk_k, db_rows, rk_i, rk_scores, rk_provenances,
                   rk_exec, rk_result>>

\* cursor.execute or fetchall raises, or the timer fires: the error leaves
\* run_sql and ranked_multi.
RankedCallFails ==
    /\ rk_pc = "loop"
    /\ rk_i <= Len(rk_queries)
    /\ RankedBound.kind = "ok"
    /\ rk_calls' = Append(rk_calls, RankedCall)
    /\ rk_exec' = Append(rk_exec, [bound |-> RankedBound, rows |-> None])
    /\ rk_pc' = "raised"
    /\ \E kind \in {"DriverError", "TimeoutError"} : rk_error' = Some(kind)
    /\ UNCHANGED <<rk_queries, rk_k, db_rows, rk_i, rk_scores, rk_provenances,
                   rk_result>>

\* One iteration of the loop, sqlman.py:116-124: run_sql returns rows and a
\* Provenance, the Provenance is appended and the rows are merged.
RankedCallReturns ==
    /\ rk_pc = "loop"
    /\ rk_i <= Len(rk_queries)
    /\ RankedBound.kind = "ok"
    /\ LET rows == db_rows[RankedCall.sql_name] IN
        /\ rk_calls' = Append(rk_calls, RankedCall)
        /\ rk_exec' = Append(rk_exec, [bound |-> RankedBound, rows |-> Some(rows)])
        /\ rk_provenances' =
               Append(rk_provenances,
                      run_sql_provenance(RankedCall.sql_name, RankedCall.params,
                                         RankedBound, rows))
        /\ rk_scores' = merge_rows(rk_scores, rows)
    /\ rk_i' = rk_i + 1
    /\ UNCHANGED <<rk_queries, rk_k, db_rows, rk_pc, rk_result, rk_error>>

\* sqlman.py:126-127
RankedReturn ==
    /\ rk_pc = "loop"
    /\ rk_i > Len(rk_queries)
    /\ rk_result' = Some([ranked |-> ranked(rk_scores, rk_k),
                           provenances |-> rk_provenances])
    /\ rk_pc' = "returned"
    /\ UNCHANGED <<rk_queries, rk_k, db_rows, rk_i, rk_scores, rk_provenances,
                   rk_calls, rk_exec, rk_error>>

NextRanked ==
    \/ RankedCallRejected
    \/ RankedCallFails
    \/ RankedCallReturns
    \/ RankedReturn

\* ================= the health check and the query endpoint (server.py)
\* The texts of pool.py:190-222, each around its %s.
E_resolve_1 ==
    <<"U", "n", "a", "b", "l", "e", " ", "t", "o", " ", "r", "e", "s", "o", "l", "v",
      "e", " ", "V", "e", "r", "t", "i", "c", "a", " ", "h", "o", "s", "t", " ", "'">>
E_resolve_2 ==
    <<"'", ".", " ", "U", "p", "d", "a", "t", "e", " ", "t", "h", "e", " ", "D", "B",
      "_", "H", "O", "S", "T", " ", "s", "e", "t", "t", "i", "n", "g", " ", "a", "n",
      "d", " ", "e", "n", "s", "u", "r", "e", " ", "D", "N", "S", " ", "i", "s", " ",
      "r", "e", "a", "c", "h", "a", "b", "l", "e", " ", "(">>
E_resolve_3 ==
    <<")", ".">>
E_unreachable_1 ==
    <<"N", "e", "t", "w", "o", "r", "k", " ", "u", "n", "r", "e", "a", "c", "h", "a",
      "b", "l", "e", " ", "w", "h", "e", "n", " ", "c", "o", "n", "t", "a", "c", "t",
      "i", "n", "g", " ", "V", "e", "r", "t", "i", "c", "a", " ", "a", "t", " ">>
E_unreachable_2 ==
    <<".", " ", "V", "e", "r", "i", "f", "y", " ", "n", "e", "t", "w", "o", "r", "k",
      " ", "o", "r", " ", "V", "P", "N", " ", "c", "o", "n", "n", "e", "c", "t", "i",
      "v", "i", "t", "y", " ", "b", "e", "f", "o", "r", "e", " ", "r", "e", "t", "r",
      "y", "i", "n", "g", ".">>
E_refused_1 ==
    <<"C", "o", "n", "n", "e", "c", "t", "i", "o", "n", " ", "t", "o", " ", "V", "e",
      "r", "t", "i", "c", "a", " ", "a", "t", " ">>
E_refused_2 ==
    <<" ", "w", "a", "s", " ", "r", "e", "f", "u", "s", "e", "d", ".", " ", "C", "o",
      "n", "f", "i", "r", "m", " ", "t", "h", "e", " ", "s", "e", "r", "v", "i", "c",
      "e", " ", "i", "s", " ", "l", "i", "s", "t", "e", "n", "i", "n", "g", " ", "o",
      "n", " ", "t", "h", "e", " ", "c", "o", "n", "f", "i", "g", "u", "r", "e", "d",
      " ", "D", "B", "_", "P", "O", "R", "T", ".">>
E_auth_1 ==
    <<"A", "u", "t", "h", "e", "n", "t", "i", "c", "a", "t", "i", "o", "n", " ", "f",
      "a", "i", "l", "e", "d", " ", "f", "o", "r", " ", "V", "e", "r", "t", "i", "c",
      "a", " ", "u", "s", "e", "r", " ", "'">>
E_auth_2 ==
    <<"'", ".", " ", "D", "o", "u", "b", "l", "e", "-", "c", "h", "e", "c", "k", " ",
      "D", "B", "_", "U", "S", "E", "R", " ", "a", "n", "d", " ", "D", "B", "_", "P",
      "A", "S", "S", "W", "O", "R", "D", ".">>

\* str(n) of a non-negative integer.
DigitSeq == <<"0", "1", "2", "3", "4", "5", "6", "7", "8", "9">>
RECURSIVE IntText(_)
IntText(n) ==
    IF n < 10 THEN <<DigitSeq[n + 1]>>
    ELSE IntText(n \div 10) \o <<DigitSeq[(n % 10) + 1]>>

\* str() of what _connect_with_retry raises while the settings are s: the text
\* of the last exception itself, or the text _classify_connection_exception
\* builds (an exception's strerror is taken to be its text).
ErrorText(error, s) ==
    CASE error.reason = "raw" -> error.cause.message
      [] error.reason = "resolve" ->
            E_resolve_1 \o s.host \o E_resolve_2 \o error.cause.message \o E_resolve_3
      [] error.reason = "unreachable" ->
            E_unreachable_1 \o s.host \o <<":">> \o IntText(s.port) \o E_unreachable_2
      [] error.reason = "refused" ->
            E_refused_1 \o s.host \o <<":">> \o IntText(s.port) \o E_refused_2
      [] error.reason = "authentication" -> E_auth_1 \o s.user \o E_auth_2

\* The text of an exception as _connect_with_retry logs it (pool.py:244-258,
\* 291-312): the redacted message, or nothing beside the class name.
LoggedText(exc) ==
    IF Summaries[exc].message = None THEN <<>> ELSE Summaries[exc].message[1]

M_placeholder ==
    <<"V", "e", "r", "t", "i", "c", "a", " ", "c", "r", "e", "d", "e", "n", "t", "i",
      "a", "l", "s", " ", "a", "r", "e", " ", "u", "s", "i", "n", "g", " ", "r", "e",
      "p", "o", "s", "i", "t", "o", "r", "y", " ", "p", "l", "a", "c", "e", "h", "o",
      "l", "d", "e", "r", " ", "v", "a", "l", "u", "e", "s", ".">>
M_empty_query ==
    <<"Q", "u", "e", "r", "y", " ", "m", "u", "s", "t", " ", "n", "o", "t", " ", "b",
      "e", " ", "e", "m", "p", "t", "y">>
M_only_select ==
    <<"O", "n", "l", "y", " ", "S", "E", "L", "E", "C", "T", " ", "s", "t", "a", "t",
      "e", "m", "e", "n", "t", "s", " ", "a", "r", "e", " ", "a", "l", "l", "o", "w",
      "e", "d">>
W_select ==
    <<"S", "E", "L", "E", "C", "T", " ">>
Q_select ==
    <<"S", "E", "L", "E", "C", "T", " ", "1">>
Q_drop ==
    <<" ", "d", "r", "o", "p", " ", "x">>

\* Settings.using_placeholder_credentials, config.py:409-417
using_placeholder_credentials_checks_port(s) ==
    /\ s.host = DEFAULT_DB_HOST
    /\ s.port = DEFAULT_DB_PORT
    /\ s.user = DEFAULT_DB_USER
    /\ s.password = DEFAULT_DB_PASSWORD
    /\ s.database = DEFAULT_DB_NAME

using_placeholder_credentials(s) ==
    /\ s.host = DEFAULT_DB_HOST
    /\ s.user = DEFAULT_DB_USER
    /\ s.password = DEFAULT_DB_PASSWORD
    /\ s.database = DEFAULT_DB_NAME

\* The locals of the handler under way: which one it is, and pool_info and
\* target as _database_check computed them on entry (server.py:61-67).
NoRequest == [kind |-> "none", pool |-> None, target |-> None]
CheckTarget(s) == [host |-> s.host, port |-> s.port, database |-> s.database,
                   user |-> s.user]

\* The dicts the handlers return; a key a dict does not have is None (FALSE for
\* placeholder_credentials). latency_ms is left out: time is not looked into.
Response(ok, request, error, exception, placeholder) ==
    [ok |-> ok, pool |-> request.pool, target |-> request.target, error |-> error,
     exception |-> exception, placeholder_credentials |-> placeholder]
\* server.py:70-76
PlaceholderResponse(request) ==
    Response(FALSE, request, Some(M_placeholder), None, TRUE)
\* server.py:90-97 and 190-195: "error": str(exc)
FailureResponse(request, error, s) ==
    Response(FALSE, request, Some(ErrorText(error, s)), Some(error.name), FALSE)
\* server.py:100-105 and 198-203
OkResponse(request) == Response(TRUE, request, None, None, FALSE)
\* server.py:174 and 176
RejectedResponse(text) == Response(FALSE, NoRequest, Some(text), None, FALSE)

\* The exceptions a connect sequence may end with, and those cursor.execute
\* may raise.
ConnectFailures ==
    {exc \in KnownExcs : exc.message \in {M_secret, M_fatal} \/ exc.errno # "none"}
QueryFailures ==
    {SecretExc,
     [name |-> "QueryError", bases |-> {"vertica_python.errors.QueryError"},
      errno |-> "none", message |-> M_down]}
\* What a client posts to /query.
QueryTexts == {<<>>, <<" ">>, Q_select, Q_drop}

\* The requests are served by MainThread, one at a time, and nothing else
\* borrows from the cache: put_nowait never finds it full.
InitRequests ==
    /\ rq = NoRequest
    /\ rq_exc = NoExc
    /\ rq_raised = RawError(NoExc)
    /\ rq_result = None
    /\ rq_log = {}
    /\ rq_done = "none"
    /\ rq_applies = 0

\* The cache as a handler that never reaches get_conn leaves it.
CacheUntouched ==
    /\ lastExit' = NoExit
    /\ UNCHANGED <<pool_size, POOL, queues, maxsize, created, closed, pc, conn, qref,
                   drained, raised>>

\* A handler may start: the settings exist and the thread is in no handler.
HandlerIdle == rq.kind = "none" /\ settings # None /\ pc[MainThread] = "idle"

\* _database_check, server.py:61-76: the placeholder credentials are reported
\* and get_conn is not called. (The four reads of the settings are one step.)
DbCheckPlaceholder ==
    /\ HandlerIdle
    /\ using_placeholder_credentials(settings[1])
    /\ \E request \in {[kind |-> "check", pool |-> Some(pool_details),
                        target |-> Some(CheckTarget(settings[1]))]} :
        rq_result' = Some(PlaceholderResponse(request))
    /\ rq_exc' = NoExc
    /\ rq_raised' = RawError(NoExc)
    /\ rq_log' = {}
    /\ rq_done' = "check"
    /\ CacheUntouched
    /\ UNCHANGED rq

\* _database_check, server.py:61-81: get_conn is entered.
DbCheckBegin ==
    /\ HandlerIdle
    /\ ~using_placeholder_credentials(settings[1])
    /\ rq' = [kind |-> "check", pool |-> Some(pool_details),
              target |-> Some(CheckTarget(settings[1]))]
    /\ rq_exc' = NoExc
    /\ rq_raised' = RawError(NoExc)
    /\ rq_result' = None
    /\ rq_log' = {}
    /\ rq_done' = "none"
    /\ GetConnEnter(MainThread)

\* _query_execution, server.py:172-176: the query is refused.
QueryRejected(query) ==
    /\ HandlerIdle
    /\ \E trimmed \in {Strip(query)} :
        /\ trimmed = <<>> \/ ~StartsWith(Upper(trimmed), W_select)
        /\ rq_result' = Some(RejectedResponse(IF trimmed = <<>> THEN M_empty_query
                                              ELSE M_only_select))
    /\ rq_exc' = NoExc
    /\ rq_raised' = RawError(NoExc)
    /\ rq_log' = {}
    /\ rq_done' = "query"
    /\ CacheUntouched
    /\ UNCHANGED rq

\* _query_execution, server.py:172-181: get_conn is entered.
QueryBegin(query) ==
    /\ HandlerIdle
    /\ \E trimmed \in {Strip(query)} :
        trimmed # <<>> /\ StartsWith(Upper(trimmed), W_select)
    /\ rq' = [kind |-> "query", pool |-> None, target |-> None]
    /\ rq_exc' = NoExc
    /\ rq_raised' = RawError(NoExc)
    /\ rq_result' = None
    /\ rq_log' = {}
    /\ rq_done' = "none"
    /\ GetConnEnter(MainThread)

RequestFrame == UNCHANGED <<rq, rq_exc, rq_raised, rq_result, rq_log>>

\* get_conn of the handler: the cache is tried, then a connection is made.
HandlerPop ==
    /\ rq.kind # "none"
    /\ GetConnPop(MainThread)
    /\ rq_done' = "none"
    /\ RequestFrame

HandlerConnected ==
    /\ rq.kind # "none"
    /\ GetConnConnected(MainThread)
    /\ rq_done' = "none"
    /\ RequestFrame

\* pool.py:289-315 and server.py:85-97, 185-195: the connect sequence ends with
\* exception last; it is logged, _connect_with_retry raises it or what it is
\* classified as, and the handler returns the text of what was raised.
HandlerConnectFails(last) ==
    /\ rq.kind # "none"
    /\ GetConnConnectFails(MainThread)
    /\ \E error \in {classify_connection_exception(last)} :
        /\ rq_raised' = error
        /\ rq_result' = Some(FailureResponse(rq, error, settings[1]))
    /\ rq_exc' = last
    /\ rq_log' = {LoggedText(last)}
    /\ rq' = NoRequest
    /\ rq_done' = rq.kind

\* cursor.execute and the fetch return (server.py:82-84, 182-184): the with
\* block is left.
HandlerBodyReturns ==
    /\ rq.kind # "none"
    /\ GetConnLeave(MainThread)
    /\ ~raised'[MainThread]
    /\ rq_done' = "none"
    /\ RequestFrame

\* cursor.execute raises: the exception passes through get_conn's finally.
HandlerBodyRaises(exc) ==
    /\ rq.kind # "none"
    /\ GetConnLeave(MainThread)
    /\ raised'[MainThread]
    /\ rq_exc' = exc
    /\ rq_raised' = RawError(exc)
    /\ rq_done' = "none"
    /\ UNCHANGED <<rq, rq_result, rq_log>>

\* The handler's return once get_conn is left (server.py:85-105, 185-203).
HandlerReturn ==
    /\ rq_result' = IF raised[MainThread]
                    THEN Some(FailureResponse(rq, rq_raised, settings[1]))
                    ELSE Some(OkResponse(rq))
    /\ rq' = NoRequest
    /\ rq_done' = rq.kind
    /\ UNCHANGED <<rq_exc, rq_raised, rq_log>>

HandlerPut ==
    /\ rq.kind # "none"
    /\ GetConnPut(MainThread)
    /\ pc'[MainThread] = "idle"
    /\ HandlerReturn

\* The targets a caller of apply_database_overrides passes: the defaults with
\* another port, the defaults with another host, the defaults themselves, and
\* a target of its own.
DefaultOverrides ==
    [host |-> Some(DEFAULT_DB_HOST), port |-> DEFAULT_DB_PORT,
     user |-> Some(DEFAULT_DB_USER), password |-> Some(DEFAULT_DB_PASSWORD),
     database |-> Some(DEFAULT_DB_NAME)]
ServedOverrides ==
    {DefaultOverrides,
     [DefaultOverrides EXCEPT !.port = 6000],
     [DefaultOverrides EXCEPT !.host = Some(<<"g">>)],
     RawOverrides(Some(<<"g">>), 6000)}
\* The environments the server starts in: nothing set, and a target set.
ServedEnvs == {[k \in EnvKeys |-> Unset], BaseEnv}

\* The settings are built on import and then updated by
\* apply_database_overrides, while requests are served.
SettingsStep ==
    /\ \/ SettingsInit /\ UNCHANGED rq_applies
       \/ /\ rq_applies < MaxApplies
          /\ rq_applies' = rq_applies + 1
          /\ \E raw \in ServedOverrides : ApplyBegin(raw)
       \/ SetNextKey /\ UNCHANGED rq_applies
       \/ ApplyFinish /\ UNCHANGED rq_applies
    /\ rq_done' = "none"
    /\ RequestFrame
    /\ UNCHANGED poolVars

NextRequests ==
    \/ SettingsStep
    \/ /\ \/ DbCheckPlaceholder
          \/ DbCheckBegin
          \/ \E query \in QueryTexts : QueryRejected(query)
          \/ \E query \in QueryTexts : QueryBegin(query)
          \/ HandlerPop
          \/ HandlerConnected
          \/ \E last \in ConnectFailures : HandlerConnectFails(last)
          \/ HandlerBodyReturns
          \/ \E exc \in QueryFailures : HandlerBodyRaises(exc)
          \/ HandlerPut
       /\ UNCHANGED <<cfgVars, rq_applies>>

\* ============================== a whole call of run_sql (sqlman.py:75-109)
\* The arguments callers give: a template that is missing, one that names a
\* schema outside the allowlist, schema parameters that are refused, and calls
\* that pass validation.
CallChoices ==
    {[file |-> None, params |-> <<>>, limit |-> None],
     [file |-> Some(<<"s", ".">>), params |-> <<>>, limit |-> None],
     [file |-> Some(<<"p", ".">>), params |-> (K_schema :> <<"s">>), limit |-> None],
     [file |-> Some(<<"p", ".">>), params |-> (K_schema :> <<"p", "-">>), limit |-> None],
     [file |-> Some(<<"p", ".">>), params |-> (K_schema :> <<"p">>), limit |-> Some(1)],
     [file |-> Some(<<"p", ".">>), params |-> <<>>, limit |-> None]}

\* What a call of run_sql ended with: the exception that left it and where
\* it came from, or the Provenance it returned (as far as time goes into it).
CallRaised(kind, stage) ==
    [kind |-> kind, stage |-> stage, as_of_ts |-> 0, duration_ms |-> 0]
CallReturned(as_of_ts, duration_ms) ==
    [kind |-> "ok", stage |-> "execute", as_of_ts |-> as_of_ts,
     duration_ms |-> duration_ms]
NoCallUnderWay == [pc |-> "idle", start |-> 0, elapsed |-> 0]

InitCall ==
    /\ call = NoCallUnderWay
    /\ call_result = None
    /\ clock = 0

\* The arguments of the call that starts.
CallArguments(args) ==
    /\ sql_file' = args.file
    /\ call_params' = args.params
    /\ call_limit' = args.limit
    /\ sql_result' = run_sql(args.file, args.params, args.limit)
    /\ UNCHANGED <<max_rows, allowed_schemas>>

\* What no step of the call but those of the connect sequence touches.
CallFrame ==
    /\ getError' = NoError
    /\ UNCHANGED <<retryVars, cw, stamp, query_timeout_s>>

\* A validation failure recorded as if it were a failed connection attempt.
CallRejected_Recorded ==
    /\ call.pc = "idle"
    /\ pc[MainThread] = "idle"
    /\ \E args \in CallChoices :
        /\ CallArguments(args)
        /\ sql_result'.kind # "ok"
        /\ call_result' = Some(CallRaised(sql_result'.kind, sql_result'.stage))
    /\ RETRY_STATE' = record_retry_failure(RETRY_STATE, NoExc, 1, 1, 0, now)
    /\ getError' = NoError
    /\ UNCHANGED <<connection_attempts, connection_retry_backoff_s, rpc, attempts,
                   backoff, attempt, last_exc, delay, now, atStart, tried, sleeps,
                   outcome, seqs>>
    /\ UNCHANGED <<cw, stamp, query_timeout_s>>
    /\ CacheUntouched
    /\ UNCHANGED <<alarm, call, clock>>

\* sqlman.py:76-86: the template is missing, names a schema that is not
\* allowed, or a schema parameter is refused; run_sql raises.
CallRejected ==
    /\ call.pc = "idle"
    /\ pc[MainThread] = "idle"
    /\ \E args \in CallChoices :
        /\ CallArguments(args)
        /\ sql_result'.kind # "ok"
        /\ call_result' = Some(CallRaised(sql_result'.kind, sql_result'.stage))
    /\ CallFrame
    /\ CacheUntouched
    /\ UNCHANGED <<alarm, call, clock>>

\* sqlman.py:76-95: validation passes, the statement is final and get_conn is
\* entered.
CallBegin ==
    /\ call.pc = "idle"
    /\ \E args \in CallChoices :
        /\ CallArguments(args)
        /\ sql_result'.kind = "ok"
    /\ call' = [pc |-> "scope", start |-> 0, elapsed |-> 0]
    /\ call_result' = None
    /\ GetConnEnter(MainThread)
    /\ CallFrame
    /\ UNCHANGED <<alarm, clock>>

\* get_conn tries the cache (pool.py:321).
CallPop ==
    /\ call.pc = "scope"
    /\ GetConnPop(MainThread)
    /\ CallFrame
    /\ UNCHANGED <<sqlVars, alarm, call, call_result, clock>>

\* A step of _connect_with_retry; when it raises, the exception leaves run_sql.
CallConnect ==
    /\ call.pc = "scope"
    /\ \/ ConnBegin(MainThread)
       \/ ConnSucceeds(MainThread)
       \/ ConnFails(MainThread)
       \/ ConnFailRecorded(MainThread)
       \/ ConnSleep(MainThread)
    /\ IF getError'.worker = MainThread
       THEN /\ call' = [call EXCEPT !.pc = "idle"]
            /\ call_result' = Some(CallRaised(getError'.error.name, "connect"))
       ELSE UNCHANGED <<call, call_result>>
    /\ UNCHANGED clock

\* sqlman.py:95-98: the alarm is set, start = time() is read and
\* cursor.execute is called.
CallExecute ==
    /\ call.pc = "scope"
    /\ RunArm(MainThread)
    /\ call' = [call EXCEPT !.start = clock]
    /\ UNCHANGED <<call_result, clock>>

\* sqlman.py:99-100: the rows are fetched and elapsed is computed.
CallFetched ==
    /\ call.pc = "scope"
    /\ RunReturns(MainThread)
    /\ call' = [call EXCEPT !.elapsed = clock - call.start]
    /\ UNCHANGED <<call_result, clock>>

\* The body fails, the alarm is cleared and get_conn's finally block starts.
CallBody ==
    /\ call.pc = "scope"
    /\ \/ RunDriverError(MainThread)
       \/ RunTimeout(MainThread)
       \/ RunDisarm(MainThread)
       \/ RunLeave(MainThread)
    /\ UNCHANGED <<call, call_result, clock>>

\* pool.py:326-328: the connection is put back (one caller alone always finds
\* room in the cache); the exception of the body, if any, leaves run_sql, else
\* the with statement is through.
CallRelease ==
    /\ call.pc = "scope"
    /\ GetConnPut(MainThread)
    /\ pc'[MainThread] = "idle"
    /\ IF raised[MainThread]
       THEN /\ call' = [call EXCEPT !.pc = "idle"]
            /\ call_result' = Some(CallRaised("Exception", "execute"))
       ELSE /\ call' = [call EXCEPT !.pc = "left"]
            /\ UNCHANGED call_result
    /\ CallFrame
    /\ UNCHANGED <<sqlVars, alarm, clock>>

\* sqlman.py:102-109: the Provenance is built, as_of_ts=_utcnow(), and returned.
CallReturn ==
    /\ call.pc = "left"
    /\ call_result' = Some(CallReturned(clock, call.elapsed))
    /\ call' = [call EXCEPT !.pc = "idle"]
    /\ CallFrame
    /\ CacheUntouched
    /\ UNCHANGED <<sqlVars, alarm, clock>>

\* Time passes while the call is under way.
Tick ==
    /\ call.pc # "idle"
    /\ clock < MaxClock
    /\ clock' = clock + 1
    /\ getError' = NoError
    /\ UNCHANGED <<poolVars, retryVars, sqlVars, cw, stamp, query_timeout_s, alarm,
                   call, call_result>>

NextCall ==
    \/ CallRejected
    \/ CallBegin
    \/ CallPop
    \/ CallConnect
    \/ CallExecute
    \/ CallFetched
    \/ CallBody
    \/ CallRelease
    \/ CallReturn
    \/ Tick

\* ================= the cache beside a change of target (config.py:423-432)
\* The host the settings name before and after apply_database_overrides.
TargetBefore == DEFAULT_DB_HOST
TargetAfter == <<"g">>

NotFollowed == [by |-> 0, done |-> FALSE]

InitTarget ==
    /\ db_target = TargetBefore
    /\ opened = [c \in 1..MaxConns |-> None]
    /\ followed = NotFollowed

\* apply_database_overrides assigns the new target to the settings; the cache
\* and the connections in it and out of it are not touched.
TargetOverride ==
    /\ db_target = TargetBefore
    /\ db_target' = TargetAfter
    /\ lastExit' = NoExit
    /\ UNCHANGED <<pool_size, POOL, queues, maxsize, created, closed, pc, conn, qref,
                   drained, raised>>
    /\ UNCHANGED <<opened, followed>>

\* A step of a worker in get_conn or reset_pool. _new_conn opens a connection
\* against the target the settings name at that moment (pool.py:228-229); the
\* first reset_pool that is called after the override is followed to its end.
TargetPool ==
    /\ NextPool
    /\ opened' = IF created' = created THEN opened
                 ELSE [opened EXCEPT ![created'] = Some(db_target)]
    /\ followed' =
        IF followed.by = 0
        THEN IF db_target = TargetAfter
                /\ \E w \in Workers : pc[w] = "idle" /\ pc'[w] = "drain"
             THEN [by |-> CHOOSE w \in Workers : pc[w] = "idle" /\ pc'[w] = "drain",
                   done |-> FALSE]
             ELSE followed
        ELSE IF pc[followed.by] = "rclose" /\ pc'[followed.by] = "idle"
             THEN [followed EXCEPT !.done = TRUE]
             ELSE followed
    /\ UNCHANGED db_target

NextTarget == TargetPool \/ TargetOverride

\* ------------------------------------------------------ specifications
\* The cache alone: no connect sequence is looked into.
QuietRetry == InitRetry /\ connection_attempts = 1 /\ connection_retry_backoff_s = 0
QuietSql ==
    /\ max_rows = MaxRows
    /\ allowed_schemas = << <<"p">> >>
    /\ sql_file = None
    /\ call_params = <<>>
    /\ call_limit = None
    /\ sql_result = NoCall
QuietAcquire == InitAcquire /\ query_timeout_s = 15
QuietSettings == environ = BaseEnv /\ InitSettings
QuietRanked ==
    /\ rk_queries = <<>>
    /\ rk_k = 1
    /\ db_rows = [n \in {N_one, N_deep} |-> <<>>]
    /\ rk_pc = "idle"
    /\ rk_i = 1
    /\ rk_scores = <<>>
    /\ rk_provenances = <<>>
    /\ rk_calls = <<>>
    /\ rk_exec = <<>>
    /\ rk_result = None
    /\ rk_error = None
QuietRedaction ==
    /\ red_frags = <<>>
    /\ red_text = <<>>
    /\ red_out = None
QuietRequests == QuietRedaction /\ InitRequests /\ InitCall /\ InitTarget
Quiet == QuietSettings /\ QuietRanked /\ QuietRequests
Init == InitPool /\ QuietRetry /\ QuietSql /\ QuietAcquire /\ Quiet
Next == NextPool /\ UNCHANGED <<retryVars, sqlVars, acqVars, cfgVars, rankVars, reqVars>>
Spec == Init /\ [][Next]_vars

\* Connect sequences alone, one after the other, on an idle cache.
QuietPool == InitPool /\ pool_size = 1
InitConnect == QuietPool /\ InitRetry /\ QuietSql /\ QuietAcquire /\ Quiet
NextConnect == NextRetry /\ UNCHANGED <<poolVars, sqlVars, acqVars, cfgVars, rankVars, reqVars>>
SpecRetry == InitConnect /\ [][NextConnect]_vars

\* Calls of run_sql alone.
InitRunSql == QuietPool /\ QuietRetry /\ InitSql /\ QuietAcquire /\ Quiet
NextRunSql == NextSql /\ UNCHANGED <<poolVars, retryVars, acqVars, cfgVars, rankVars, reqVars>>
SpecSql == InitRunSql /\ [][NextRunSql]_vars

\* Workers that acquire through the cache and connect on a miss, attempt by
\* attempt, all writing the one retry record. The settings stay as they are
\* and every clock reading is the same.
InitWorkers == QuietPool /\ InitRetry /\ QuietSql /\ QuietAcquire /\ Quiet
NextWorkers == NextAcquire /\ UNCHANGED <<cfgVars, rankVars, reqVars>>
SpecAcquire == InitWorkers /\ [][NextWorkers]_vars

\* run_sql's timed body on the main thread, between acquire and release.
InitBody == InitPool /\ QuietRetry /\ QuietSql /\ InitAcquire /\ Quiet
NextTimed == NextBody /\ UNCHANGED <<cfgVars, rankVars, reqVars>>
SpecBody == InitBody /\ [][NextTimed]_vars

\* reset_pool on a quiet cache, the pool size changing at any time.
NextReset == NextSerial /\ UNCHANGED <<retryVars, sqlVars, acqVars, cfgVars, rankVars, reqVars>>
SpecReset == Init /\ [][NextReset]_vars

\* The Settings object, built from the environment and then updated by one
\* caller at a time while the environment changes between the operations.
QuietRest == QuietPool /\ QuietRetry /\ QuietSql /\ QuietAcquire
InitConfig == QuietRest /\ environ \in EnvChoices /\ InitSettings /\ QuietRanked /\ QuietRequests
NextConfig == NextSettings /\ UNCHANGED <<poolVars, retryVars, sqlVars, acqVars, rankVars, reqVars>>
SpecConfig == InitConfig /\ [][NextConfig]_vars

\* One caller updating the Settings object while another thread reads it.
InitConfigRace == QuietRest /\ environ \in FewEnvs /\ InitSettings /\ QuietRanked /\ QuietRequests
NextConfigRace ==
    NextSettingsRace /\ UNCHANGED <<poolVars, retryVars, sqlVars, acqVars, rankVars, reqVars>>
SpecConfigRace == InitConfigRace /\ [][NextConfigRace]_vars

\* Exception messages that hold credentials, run through the redaction.
InitRedact ==
    /\ QuietRest /\ QuietSettings /\ QuietRanked
    /\ InitRedaction /\ InitRequests /\ InitCall /\ InitTarget
NextRedact ==
    NextRedaction
    /\ UNCHANGED <<poolVars, retryVars, sqlVars, acqVars, cfgVars, rankVars, srvVars,
                   callVars, tgtVars>>
SpecRedact == InitRedact /\ [][NextRedact]_vars

\* The health check and the query endpoint served by one thread while the
\* settings are updated.
InitServe ==
    /\ InitPool /\ QuietRetry /\ QuietSql /\ QuietAcquire
    /\ environ \in ServedEnvs /\ InitSettings
    /\ QuietRanked /\ QuietRedaction /\ InitRequests /\ InitCall /\ InitTarget
NextServe ==
    NextRequests
    /\ UNCHANGED <<retryVars, sqlVars, acqVars, rankVars, redVars, callVars, tgtVars>>
SpecServe == InitServe /\ [][NextServe]_vars

\* Calls of run_sql by the main thread, one after the other, from validation
\* to the Provenance, while time passes.
InitRunCall ==
    /\ QuietPool /\ InitRetry /\ QuietSql /\ QuietAcquire
    /\ QuietSettings /\ QuietRanked /\ QuietRedaction /\ InitRequests /\ InitCall
    /\ InitTarget
NextRunCall == NextCall /\ UNCHANGED <<cfgVars, rankVars, redVars, srvVars, tgtVars>>
SpecCall == InitRunCall /\ [][NextRunCall]_vars

\* The cache used by concurrent workers while the target is overridden.
InitRetarget ==
    /\ QuietPool /\ QuietRetry /\ QuietSql /\ QuietAcquire
    /\ QuietSettings /\ QuietRanked /\ QuietRedaction /\ InitRequests /\ InitCall
    /\ InitTarget
NextRetarget ==
    NextTarget
    /\ UNCHANGED <<retryVars, sqlVars, acqVars, cfgVars, rankVars, redVars, srvVars,
                   callVars>>
SpecRetarget == InitRetarget /\ [][NextRetarget]_vars

\* Calls of ranked_multi on a database that answers every template with its
\* rows or with an error.
InitRankedMulti == QuietRest /\ QuietSettings /\ InitRanked /\ QuietRequests
NextRankedMulti ==
    NextRanked /\ UNCHANGED <<poolVars, retryVars, sqlVars, acqVars, cfgVars, reqVars>>
SpecRanked == InitRankedMulti /\ [][NextRankedMulti]_vars

\* ===================================================== claims on the cache
\* Number of places a connection is in: a worker's hands, a slot of a Queue
\* object, a reset's drained list, or closed.
Occurrences(c) ==
    Cardinality({w \in Workers : conn[w] = c})
    + Cardinality({<<q, i>> \in QueueIds \X (1..MaxConns) :
                        i <= Len(queues[q]) /\ queues[q][i] = c})
    + Cardinality({<<w, i>> \in Workers \X (1..MaxConns) :
                        i <= Len(drained[w]) /\ drained[w][i] = c})
    + (IF c \in closed THEN 1 ELSE 0)

\* C1: the number of idle cached connections reported as 'available' is always
\* <= pool_size and never exceeds the cache's max_size.
C1_AvailableWithinPoolSize ==
    /\ pool_details.available <= pool_details.configured_size
    /\ pool_details.available <= pool_details.max_size

\* C2: no connection is held by two borrowers at once, and no push or pop is
\* lost: every connection created is in exactly one place (one worker's hands,
\* one slot of one queue, one drained list, or closed).
C2_NoDoubleIssue ==
    /\ \A w1, w2 \in Workers :
        (w1 # w2 /\ conn[w1] # NoConn) => conn[w1] # conn[w2]
    /\ \A c \in 1..created : Occurrences(c) = 1
    /\ \A c \in ConnIds : c > created => Occurrences(c) = 0

\* Two acquires race for the one connection the cache holds.
C2_Witness ==
    /\ \E w1, w2 \in Workers :
        w1 # w2 /\ pc[w1] = "get" /\ pc[w2] = "get" /\ qref[w1] = POOL /\ qref[w2] = POOL
    /\ Len(queues[POOL]) = 1

C3_ExitState ==
    lastExit.worker # 0 =>
        /\ lastExit.fate \in {"pooled", "closed"}
        /\ (lastExit.fate = "closed") => lastExit.conn \in closed
        /\ lastExit.propagated = (IF lastExit.callerRaised THEN "caller" ELSE "none")

C3_ExitStep ==
    \A w \in Workers :
        /\ (pc[w] = "held" /\ pc'[w] # "held") => pc'[w] = "put"
        /\ (pc[w] = "put" /\ pc'[w] = "idle") =>
                /\ queues'[qref[w]] = Append(queues[qref[w]], conn[w])
                /\ conn[w] \notin closed'
                /\ conn'[w] = NoConn
                /\ lastExit'.worker = w /\ lastExit'.fate = "pooled"
        /\ (pc[w] = "put" /\ pc'[w] # "put") => pc'[w] \in {"idle", "close"}
        /\ (pc[w] = "put" /\ pc'[w] = "close") =>
                /\ QueueFull(queues[qref[w]], maxsize[qref[w]])
                /\ conn'[w] = conn[w]
        /\ (pc[w] = "close" /\ pc'[w] # "close") =>
                /\ pc'[w] = "idle"
                /\ conn[w] \in closed'
                /\ conn'[w] = NoConn
                /\ lastExit'.worker = w /\ lastExit'.fate = "closed"

\* C3: every exit from a get_conn scope, normal or by an exception of the
\* caller, ends with the connection accepted by the cache's put_nowait or, when
\* the cache rejects it, closed; a failing close() is swallowed, and what
\* propagates is the caller's own exception, if any.
C3_ScopeExitReleases == []C3_ExitState /\ [][C3_ExitStep]_vars

\* A caller raised while the cache was full, and close() raised too.
C3_Witness ==
    /\ lastExit.worker # 0
    /\ lastExit.callerRaised
    /\ lastExit.fate = "closed"
    /\ lastExit.closeRaised


\* ========================================== claims on the connect sequence
C8_State ==
    /\ tried <= Max(1, atStart.connection_attempts)
    /\ seqs > 0 =>
        /\ attempts = Max(1, atStart.connection_attempts)
        /\ backoff = atStart.connection_retry_backoff_s
    /\ outcome = "returned" =>
        /\ rpc = "idle"
        /\ Len(sleeps) <= tried - 1
C8_Step ==
    /\ (rpc = "try" /\ outcome' = "returned") => (tried' = tried + 1 /\ sleeps' = sleeps)
    /\ (outcome = "returned" /\ seqs' = seqs) => (tried' = tried /\ sleeps' = sleeps)

\* C8: one connect sequence makes at most max(1, connection_attempts) attempts,
\* the count and the backoff being read once when the sequence begins; the first
\* successful attempt returns at once, and neither an attempt nor a sleep follows.
C8_BoundedAttempts == []C8_State /\ [][C8_Step]_vars

\* The settings were raised under a running sequence, which then succeeded on
\* its second attempt of two.
C8_Witness ==
    /\ outcome = "returned"
    /\ tried = 2
    /\ atStart.connection_attempts = 2
    /\ connection_attempts = 3
    /\ connection_retry_backoff_s # atStart.connection_retry_backoff_s

\* The sleeps the claim expects of n failed attempts with base backoff b.
ExpectedSleeps(b, n) == IF b > 0 THEN [i \in 1..(n - 1) |-> b * Pow2(i - 1)] ELSE <<>>

\* C9: when all n attempts fail with base backoff b > 0, the sleeps are exactly
\* b*2^(i-1) after failed attempt i, for i = 1..n-1 in that order, with none
\* after the last attempt; with b = 0 nothing sleeps at all.
C9_SleepsDouble ==
    LET b == atStart.connection_retry_backoff_s
        n == Max(1, atStart.connection_attempts)
    IN  /\ outcome = "raised" => sleeps = ExpectedSleeps(b, n)
        /\ b = 0 => sleeps = <<>>
        /\ Len(sleeps) <= Len(ExpectedSleeps(b, n))
        /\ \A i \in DOMAIN sleeps : sleeps[i] = ExpectedSleeps(b, n)[i]

\* n = 3, b = 0.25 s: the sleeps are [0.25, 0.5].
C9_Witness ==
    /\ outcome = "raised"
    /\ atStart.connection_attempts = 3
    /\ atStart.connection_retry_backoff_s = 250000
    /\ sleeps = <<250000, 500000>>

\* C10: at the end of a connect sequence whose attempts all failed, the retry
\* record has attempts = max_attempts, exhausted, not in_progress, and
\* next_retry_in_s, next_retry_at and recovered_at all null.
C10_ExhaustedRecord ==
    outcome = "raised" =>
        /\ connection_retry_state.attempts = connection_retry_state.max_attempts
        /\ connection_retry_state.exhausted
        /\ ~connection_retry_state.in_progress
        /\ connection_retry_state.next_retry_in_s = None
        /\ connection_retry_state.next_retry_at = None
        /\ connection_retry_state.recovered_at = None

\* C11: after a connect sequence that succeeded on attempt a >= 2, the retry
\* record has in_progress = false, attempts = a, exhausted = false,
\* next_retry_in_s = null and recovered_at set, while last_failure and
\* last_exception still describe the last failed attempt.
C11_RecoveredRecord ==
    (outcome = "returned" /\ tried >= 2) =>
        /\ ~connection_retry_state.in_progress
        /\ connection_retry_state.attempts = tried
        /\ ~connection_retry_state.exhausted
        /\ connection_retry_state.next_retry_in_s = None
        /\ connection_retry_state.recovered_at # None
        /\ connection_retry_state.last_exception = Some(last_exc.name)
        /\ connection_retry_state.last_failure =
                Some(IF last_exc.message # <<>> THEN last_exc.message ELSE last_exc.name)

\* Attempt 1 failed with an exception that has no message, attempt 2 succeeded.
C11_Witness ==
    /\ outcome = "returned"
    /\ tried = 2
    /\ last_exc.name = "OSError"
    /\ connection_retry_state.recovered_at # None

C12_Step ==
    LET failed == rpc = "try" /\ tried' = tried + 1 /\ outcome' # "returned"
        succeeded == rpc = "try" /\ outcome' = "returned"
    IN  /\ failed => (RETRY_STATE'.exhausted <=> tried' = Max(1, atStart.connection_attempts))
        /\ succeeded => ~RETRY_STATE'.exhausted
        /\ ~(failed \/ succeeded) => RETRY_STATE'.exhausted = RETRY_STATE.exhausted

C13_Step ==
    RETRY_STATE'.recovered_at # RETRY_STATE.recovered_at =>
        /\ rpc = "try" /\ outcome' = "returned"
        /\ tried >= 1
C13_RecoveredOnlyAfterFailure == [][C13_Step]_vars

\* ================================= claims on get_conn's connect sequence
\* The causes the claim names, told from the exception itself.
IsDnsFailure(exc) == "socket.gaierror" \in exc.bases
IsOsError(exc, code) == "OSError" \in exc.bases /\ exc.errno = code
IsDriverAuthFailure(exc) ==
    /\ "vertica_python.errors.ConnectionError" \in exc.bases
    /\ \E marker \in AUTH_FAILURE_MARKERS : Contains(Lower(exc.message), marker)
IsSetupCause(exc) ==
    \/ IsDnsFailure(exc)
    \/ IsOsError(exc, "ENETUNREACH")
    \/ IsOsError(exc, "ECONNREFUSED")
    \/ IsDriverAuthFailure(exc)

C14_State ==
    getError.worker # 0 =>
        /\ pc[getError.worker] = "idle"
        /\ conn[getError.worker] = NoConn
        /\ IF IsSetupCause(getError.error.cause)
           THEN getError.error.name = "VerticaConnectionSetupError"
           ELSE getError.error = RawError(getError.error.cause)
C14_Step ==
    \A w \in Workers :
        (cw[w].pc = "recorded" /\ cw[w].attempt = cw[w].attempts /\ cw'[w] # cw[w]) =>
            /\ getError'.worker = w
            /\ getError'.error.cause = cw[w].last_exc
            /\ pc'[w] = "idle"
            /\ conn'[w] = NoConn
            /\ queues' = queues
            /\ POOL' = POOL

\* C14: when every attempt of a connect sequence has failed, get_conn raises to
\* its caller: VerticaConnectionSetupError when the last exception is a DNS
\* failure, ENETUNREACH, ECONNREFUSED or a driver authentication failure, else
\* the last exception itself; no connection is yielded and the cache is left
\* as it is.
C14_ExhaustedRaises == []C14_State /\ [][C14_Step]_vars

\* A sequence ends in an authentication failure while the cache holds a
\* connection another worker released in the meantime.
C14_Witness ==
    /\ getError.worker # 0
    /\ getError.error.name = "VerticaConnectionSetupError"
    /\ getError.error.cause.message = M_fatal
    /\ queues[POOL] # <<>>

\* C19: a worker in the middle of its connect sequence, its backoff sleeps
\* included, holds nothing that guards the cache: every other worker's next
\* step of get_conn - the pop, the push, the close after a rejection - can be
\* taken at once, whatever the connecting worker does or does not do.
C19_ConnectHoldsNoLock ==
    \A w1, w2 \in Connectors :
        (w1 # w2 /\ cw[w1].pc \in {"try", "recorded", "sleep"}
                 /\ pc[w2] \in {"idle", "get", "held", "put", "close"})
            => ENABLED CacheStep(w2)

\* One worker sleeps between two attempts while the other has just had its
\* connection taken back by the cache.
C19_Witness ==
    \E w1, w2 \in Connectors :
        /\ w1 # w2
        /\ pc[w1] = "connect"
        /\ cw[w1].pc = "sleep"
        /\ lastExit.worker = w2
        /\ lastExit.fate = "pooled"

\* C20: the retry record is updated atomically and reflects one connect
\* sequence only: no snapshot holds fields written by the sequences of two
\* different workers, and what a worker's sequence does - its attempts, its
\* delays - follows from its own locals, whatever another worker's sequence
\* writes.
C20_RecordOfOneSequence ==
    /\ \A f, g \in DOMAIN stamp :
        (stamp[f] # 0 /\ stamp[g] # 0) => stamp[f] = stamp[g]
    /\ \A w \in Workers :
        cw[w].pc # "none" =>
            /\ cw[w].attempts = Max(1, connection_attempts)
            /\ cw[w].backoff = connection_retry_backoff_s
            /\ cw[w].attempt \in 1..cw[w].attempts
            /\ cw[w].pc \in {"recorded", "sleep"} =>
                    cw[w].delay = (IF cw[w].attempt = cw[w].attempts
                                      \/ connection_retry_backoff_s = 0
                                   THEN 0
                                   ELSE connection_retry_backoff_s
                                            * Pow2(cw[w].attempt - 1))

\* ============================================ claims on run_sql's body
\* C17: whenever the execute/fetch step of run_sql fails, by the query timeout
\* or by a driver error, the connection that was used is discarded: it is
\* closed and not put back into the cache.
C17_FailedQueryDiscards ==
    (lastExit.worker = MainThread /\ lastExit.callerRaised) =>
        /\ lastExit.fate = "closed"
        /\ \A q \in QueueIds : \A i \in DOMAIN queues[q] : queues[q][i] # lastExit.conn

\* C18: the alarm is armed, with settings.query_timeout_s, only while the main
\* thread is in run_sql's body with its connection acquired, and is off before
\* the connection is released, whether the body returned, raised a driver
\* error or timed out; it is off while a connection is being established and
\* after run_sql is left.
C18_AlarmWithinBody ==
    /\ alarm \in {0, query_timeout_s}
    /\ alarm # 0 =>
        /\ pc[MainThread] \in {"exec", "exit"}
        /\ conn[MainThread] # NoConn
        /\ \A q \in QueueIds : \A i \in DOMAIN queues[q] :
                queues[q][i] # conn[MainThread]
    /\ pc[MainThread] \in {"idle", "get", "connect", "held", "disarmed", "put", "close"}
            => alarm = 0

\* The body has timed out: the alarm went off and TimeoutError is on its way
\* through Timeout.__exit__.
C18_Witness ==
    /\ pc[MainThread] = "exit"
    /\ raised[MainThread]
    /\ alarm = 0
    /\ query_timeout_s = 1

\* ============================================ claims on reset_pool
C15_Step ==
    \A w \in Workers :
        (pc[w] = "rclose" /\ pc'[w] = "idle") =>
            /\ \A c \in 1..created : c \in closed'
            /\ POOL' # POOL
            /\ queues'[POOL'] = <<>>
            /\ maxsize'[POOL'] = pool_size

\* C15: reset_pool with no pool operation beside it calls close() on every
\* connection the cache held when it started, whether or not a close() raises,
\* and leaves a new, empty cache whose max_size is settings.pool_size as it is
\* when the cache is replaced.
C15_ResetReplacesCache ==
    [](\A w \in Resetting : \A v \in Workers \ {w} : pc[v] = "idle")
    /\ [][C15_Step]_vars

\* Two cached connections were closed and the new cache has the size the
\* settings got after the old cache was made.
C15_Witness ==
    /\ POOL = 1
    /\ closed = {1, 2}
    /\ maxsize[POOL] # maxsize[0]
    /\ queues[POOL] = <<>>
    /\ \A w \in Workers : pc[w] = "idle"

C16_Step ==
    \A c \in closed' \ closed :
        \A v \in Workers : conn[v] = c => pc[v] = "close"

\* C16: reset_pool never closes a connection that a borrower has checked out:
\* a connection is closed by reset_pool only after reset_pool took it out of the
\* cache, and by nobody else but the borrower that the cache refused it to.
C16_ResetSparesBorrowed ==
    [](\A w \in Workers : conn[w] # NoConn => conn[w] \notin closed)
    /\ [][C16_Step]_vars

\* A reset has closed an idle connection while a borrower holds another.
C16_Witness ==
    \E w1, w2 \in Workers :
        /\ pc[w1] = "held"
        /\ conn[w1] # NoConn
        /\ pc[w2] = "rclose"
        /\ closed # {}
        /\ drained[w2] = <<>>

\* ==================================================== claims on run_sql
BoundLimit == sql_result.params[1][K_limit]
\* min(requested limit or max_rows, max_rows) of the call.
ExpectedCap ==
    IF call_limit = None \/ call_limit = Some(0) THEN max_rows
    ELSE IF call_limit[1] <= max_rows THEN call_limit[1] ELSE max_rows

\* C4: when the template holds ':limit', the 'limit' bound at execution is
\* cap = min(requested limit or max_rows, max_rows), whatever 'limit' the caller
\* put into params, and so never exceeds max_rows.
C4_LimitTokenBindsCap ==
    (sql_result.kind = "ok" /\ Contains(sql_file[1], T_limit)) =>
        /\ BoundLimit = ExpectedCap
        /\ BoundLimit <= max_rows

\* C5: without ':limit' in the template, the statement executed is exactly
\* 'SELECT * FROM ( <original> ) AS t LIMIT :limit' with limit = cap, so that
\* every statement run_sql executes is bound to a limit of at most max_rows.
C5_EveryStatementCapped ==
    /\ (sql_result.kind = "ok" /\ ~Contains(sql_file[1], T_limit)) =>
        /\ sql_result.sql = Some(WrapHead \o sql_file[1] \o WrapTail)
        /\ BoundLimit = ExpectedCap
    /\ sql_result.kind = "ok" => BoundLimit <= max_rows

\* The qualifiers of a text: each identifier [A-Za-z_][A-Za-z0-9_]* that a dot
\* follows and that is not the tail of a longer identifier.
IsIdentifier(text) ==
    /\ text # <<>>
    /\ text[1] \in IdentStartChars
    /\ \A i \in DOMAIN text : text[i] \in IdentChars
Qualifiers(text) ==
    {SubSeq(text, i, j - 1) : <<i, j>> \in
        {<<i, j>> \in (1..Len(text)) \X (1..Len(text)) :
            /\ i < j
            /\ text[j] = "."
            /\ IsIdentifier(SubSeq(text, i, j - 1))
            /\ \A h \in 1..(i - 1) : ~IsIdentifier(SubSeq(text, h, j - 1))}}

\* C6: run_sql raises PermissionError whenever the template holds a qualifier
\* '<identifier>.' whose lower-cased identifier is not an allowed schema, and
\* then executes nothing; letter case is ignored, so that qualifiers that differ
\* from allowed schemas in case only are let through.
C6_TemplateAllowlist ==
    (sql_result # NoCall /\ sql_file # None) =>
        IF \E q \in Qualifiers(sql_file[1]) : Lower(q) \notin allowed_schema_set
        THEN /\ sql_result.kind = "PermissionError"
             /\ sql_result.sql = None
        ELSE sql_result.stage # "template"

\* 'P.' is let through where only 'p' is allowed, and 's.' is refused.
C6_Witness ==
    /\ sql_file = Some(<<"P", ".", "s", ".">>)
    /\ allowed_schemas = << <<"p">> >>
    /\ sql_result.kind = "PermissionError"

\* C7: for every params key that ends in 'schema', a value that is no bare
\* identifier is rejected with ValueError and a bare identifier outside the
\* allowlist with PermissionError; only calls whose every such value is an
\* allowed bare identifier reach execution.
C7_SchemaParams ==
    (sql_result # NoCall /\ sql_result.stage # "template") =>
        LET bad == {k \in DOMAIN call_params :
                        EndsWith(k, K_schema) /\ ~IsIdentifier(call_params[k])}
            refused == {k \in DOMAIN call_params :
                        /\ EndsWith(k, K_schema)
                        /\ IsIdentifier(call_params[k])
                        /\ Lower(call_params[k]) \notin allowed_schema_set}
        IN  /\ (bad # {} /\ refused = {}) => sql_result.kind = "ValueError"
            /\ (refused # {} /\ bad = {}) => sql_result.kind = "PermissionError"
            /\ sql_result.kind = "ok" => (bad = {} /\ refused = {})

\* ================================================== claims on Settings
\* The fields apply_database_overrides is to leave alone.
OtherFields == Range(FieldOrder) \ Range(DatabaseKeys)
InPortRange(n) == 1 <= n /\ n <= 65535

\* C21: a reader never observes a host/port/user/password/database tuple that
\* mixes values from before and after an update: the options a reader has built
\* are a target the Settings object held, or was given, while it read.
C21_ReaderSeesOneTarget ==
    rd_pc = Len(DatabaseKeys) + 1 => Target(rd_opts) \in rd_seen

\* C22: apply_database_overrides followed by reload_from_environment, the
\* environment unchanged in between, leaves host, port, user, password and
\* database as environment-only construction produces them, and database_source
\* back at "environment".
C22_ReloadRestores ==
    (cfg_done = "reload" /\ cfg_prev = "apply") =>
        /\ Settings(environ).ok
        /\ Target(settings[1]) = Target(Settings(environ).value)
        /\ settings[1].database_source = "environment"

C22_Witness ==
    /\ cfg_done = "reload"
    /\ cfg_prev = "apply"
    /\ settings[1].database_source = "environment"
    /\ Target(settings[1]) # <<<<"g">>, 6000, <<"r">>, <<"w">>, <<"m">>>>

\* C23: apply_database_overrides replaces exactly host, port, user, password
\* and database with the validated override values (text fields stripped and
\* non-empty, port in [1, 65535]), sets database_source to "runtime" and leaves
\* every other setting as it was; overrides that do not validate change nothing.
C23_Step ==
    /\ cfg_done' = "apply" =>
        /\ \A f \in {"host", "user", "password", "database"} :
              /\ cfg_arg[1][f] # None
              /\ settings'[1][f] = Strip(cfg_arg[1][f][1])
              /\ settings'[1][f] # <<>>
        /\ settings'[1].port = cfg_arg[1].port
        /\ InPortRange(settings'[1].port)
        /\ settings'[1].database_source = "runtime"
        /\ \A f \in OtherFields : settings'[1][f] = cfg_before[1][f]
    /\ cfg_done' = "rejected" => settings' = settings

C23_ApplyReplacesTarget == [][C23_Step]_vars

C23_Witness ==
    /\ cfg_done = "apply"
    /\ cfg_arg[1].host = Some(<<" ", "g", " ">>)
    /\ settings[1].host = <<"g">>
    /\ settings[1].port = 65535
    /\ settings[1].pool_size = 2

\* C24: in every Settings state, after construction, after
\* apply_database_overrides and after reload_from_environment, allowed_schemas
\* is non-empty and the primary port and every backup-node port lie in
\* [1, 65535].
C24_SchemasAndPorts ==
    cfg_pc = "idle" =>
        /\ settings[1].allowed_schemas # <<>>
        /\ InPortRange(settings[1].port)
        /\ \A i \in DOMAIN settings[1].backup_nodes :
              InPortRange(settings[1].backup_nodes[i][2])

\* C25: every Settings object that construction or reload_from_environment
\* produces has pool_size >= 1, max_rows >= 1, query_timeout_s >= 1,
\* connection_attempts >= 1 and connection_retry_backoff_s >= 0.
C25_PolicyRanges ==
    cfg_done \in {"construct", "reload"} =>
        /\ settings[1].pool_size >= 1
        /\ settings[1].max_rows >= 1
        /\ settings[1].query_timeout_s >= 1
        /\ settings[1].connection_attempts >= 1
        /\ settings[1].connection_retry_backoff_s >= 0

\* What the environment says about a number: nothing (unset or blank), a text
\* that is no number, or a number.
EnvText(e, key) ==
    LET value == IF e[key].plain # None THEN e[key].plain ELSE e[key].mcp
    IN  IF value = None \/ Strip(value[1]) = <<>> THEN None ELSE value
NoInteger(e, key) == EnvText(e, key) = None \/ ParseInt(EnvText(e, key)[1]) = None
NoFloat(e, key) == EnvText(e, key) = None \/ ParseFloat(EnvText(e, key)[1]) = None
\* The structural violations the claim names.
NonPositiveRetries(e) ==
    ~NoInteger(e, "DB_CONNECTION_RETRIES")
    /\ ParseInt(EnvText(e, "DB_CONNECTION_RETRIES")[1])[1] <= 0
NegativeBackoff(e) ==
    ~NoFloat(e, "DB_CONNECTION_RETRY_BACKOFF_S")
    /\ ParseFloat(EnvText(e, "DB_CONNECTION_RETRY_BACKOFF_S")[1])[1] < 0
NoSchemas(e) ==
    /\ EnvText(e, "ALLOWED_SCHEMAS") # None
    /\ \A i \in DOMAIN Split(EnvText(e, "ALLOWED_SCHEMAS")[1], ",") :
          Strip(Split(EnvText(e, "ALLOWED_SCHEMAS")[1], ",")[i]) = <<>>
\* The settings that are neither integers nor floats and have rules of their own.
OtherRulesApply(e) ==
    \E key \in {"DB_BACKUP_NODES", "DB_TLSMODE", "DB_USE_SSL"} : EnvText(e, key) # None

BackupEntries(e) ==
    IF EnvText(e, "DB_BACKUP_NODES") = None THEN <<>>
    ELSE SelectSeq([i \in DOMAIN Split(EnvText(e, "DB_BACKUP_NODES")[1], ",") |->
                       Strip(Split(EnvText(e, "DB_BACKUP_NODES")[1], ",")[i])],
                   LAMBDA entry : entry # <<>>)
HasColon(entry) == \E i \in DOMAIN entry : entry[i] = ":"
\* An entry with a colon whose host is empty or whose port is empty, no
\* integer, or out of range.
BadEntry(entry) ==
    /\ HasColon(entry)
    /\ LET i == CHOOSE i \in DOMAIN entry :
                    entry[i] = ":" /\ \A j \in (i + 1)..Len(entry) : entry[j] # ":"
           host == Strip(SubSeq(entry, 1, i - 1))
           port == Strip(SubSeq(entry, i + 1, Len(entry)))
       IN  \/ host = <<>>
           \/ port = <<>>
           \/ ParseInt(port) = None
           \/ ~InPortRange(ParseInt(port)[1])

\* C27: construction fails for every backup-node list with an entry whose host
\* is empty or whose port is empty, not an integer or outside [1, 65535]; an
\* entry given without ":port" gets the configured primary port.
C27_BackupNodes ==
    cfg_done \in {"construct", "reload", "failed"} =>
        /\ (\E i \in DOMAIN BackupEntries(environ) : BadEntry(BackupEntries(environ)[i]))
              => cfg_done = "failed"
        /\ cfg_done # "failed" =>
              \A i \in DOMAIN BackupEntries(environ) :
                  ~HasColon(BackupEntries(environ)[i]) =>
                      /\ i \in DOMAIN settings[1].backup_nodes
                      /\ settings[1].backup_nodes[i][1] = BackupEntries(environ)[i]
                      /\ settings[1].backup_nodes[i][2] = settings[1].port

\* ============================================== claims on ranked_multi
\* The rows the sub-queries returned, in the order they came, each with the
\* number of the sub-query it came from.
RECURSIVE RowsOf(_)
RowsOf(n) ==
    IF n = 0 THEN <<>>
    ELSE RowsOf(n - 1)
         \o (IF rk_exec[n].rows = None THEN <<>>
             ELSE [i \in DOMAIN rk_exec[n].rows[1] |->
                      [query |-> n, row |-> rk_exec[n].rows[1][i]]])
KeyedRows == SelectSeq(RowsOf(Len(rk_exec)), LAMBDA r : r.row # <<>>)
KeysFound == {KeyedRows[i].row[1] : i \in DOMAIN KeyedRows}
RowScore(row) == IF Len(row) > 1 THEN row[2] ELSE 0
BestScore(key) ==
    CHOOSE s \in {RowScore(KeyedRows[i].row) : i \in DOMAIN KeyedRows} :
        /\ \E i \in DOMAIN KeyedRows : KeyedRows[i].row[1] = key /\ RowScore(KeyedRows[i].row) = s
        /\ \A i \in DOMAIN KeyedRows : KeyedRows[i].row[1] = key => RowScore(KeyedRows[i].row) <= s
FirstSeen(key) ==
    CHOOSE i \in DOMAIN KeyedRows :
        KeyedRows[i].row[1] = key /\ \A j \in 1..(i - 1) : KeyedRows[j].row[1] # key
\* key1 comes before key2 in the ranking: the higher score, and among equal
\* scores the key seen first.
RanksBefore(key1, key2) ==
    \/ BestScore(key1) > BestScore(key2)
    \/ BestScore(key1) = BestScore(key2) /\ FirstSeen(key1) < FirstSeen(key2)

\* C28: ranked_multi returns one (key, score) pair per distinct key found in
\* the rows of all sub-queries, its score the maximum the key has in any row
\* (0.0 for a row with one column), sorted by score descending with equal
\* scores in first-seen order, cut to the first k entries.
C28_RankedMerge ==
    rk_result # None =>
        LET r == rk_result[1].ranked IN
        /\ Len(r) = Min(rk_k, Cardinality(KeysFound))
        /\ \A i \in DOMAIN r : r[i][1] \in KeysFound /\ r[i][2] = BestScore(r[i][1])
        /\ \A i, j \in DOMAIN r : i < j => RanksBefore(r[i][1], r[j][1])
        /\ \A key \in KeysFound \ {r[i][1] : i \in DOMAIN r} :
              \A i \in DOMAIN r : RanksBefore(r[i][1], key)

\* A ranking cut to k entries in which a key has a negative score, although a
\* later sub-query would have put a key first.
C28_Witness ==
    /\ rk_result # None
    /\ Cardinality(KeysFound) > rk_k
    /\ Len(rk_exec) = 2
    /\ rk_result[1].ranked = <<<<"b", 2>>>>
    /\ BestScore("a") = -1

\* C29: ranked_multi calls run_sql once per sub-query, in the declared order
\* and with limit = k, and returns one Provenance per sub-query in that order;
\* when a sub-query fails the error leaves ranked_multi at once: no later
\* sub-query is run and nothing is returned.
C29_State ==
    /\ \A i \in DOMAIN rk_calls :
          rk_calls[i] = [sql_name |-> rk_queries[i][1], params |-> rk_queries[i][2],
                         limit |-> Some(rk_k)]
    /\ rk_result # None =>
          /\ rk_error = None
          /\ Len(rk_calls) = Len(rk_queries)
          /\ Len(rk_result[1].provenances) = Len(rk_queries)
          /\ \A i \in DOMAIN rk_queries :
                rk_result[1].provenances[i].sql_or_view = PathName(rk_queries[i][1])
    /\ rk_error # None => rk_result = None
C29_Step ==
    rk_error # None => UNCHANGED <<rk_calls, rk_exec, rk_result, rk_error>>
C29_InOrderOrError == []C29_State /\ [][C29_Step]_vars

\* The first of two sub-queries failed and the second was never run.
C29_Witness ==
    /\ rk_error # None
    /\ Len(rk_queries) = 2
    /\ Len(rk_calls) = 1

\* C30: the Provenance run_sql returns holds the parameter map that was bound
\* at execution, limit included, the file name of the template and the number
\* of the rows returned.
C30_Provenance ==
    \A i \in DOMAIN rk_provenances :
        /\ rk_exec[i].rows # None
        /\ rk_provenances[i].params = rk_exec[i].bound.params[1]
        /\ K_limit \in DOMAIN rk_provenances[i].params
        /\ rk_provenances[i].sql_or_view = PathName(rk_calls[i].sql_name)
        /\ rk_provenances[i].row_count = Len(rk_exec[i].rows[1])

\* A call whose parameter map got its limit from run_sql, on a template in a
\* sub-directory, returning two rows.
C30_Witness ==
    /\ Len(rk_provenances) = 2
    /\ rk_calls[1].sql_name = N_one
    /\ K_limit \notin DOMAIN rk_calls[1].params
    /\ rk_calls[2].sql_name = N_deep
    /\ rk_provenances[2].sql_or_view = "one.sql"
    /\ rk_provenances[2].row_count = 2
\* C40: a reload_from_environment that fails because the environment does not
\* validate leaves the Settings object as it was, database_source and the
\* runtime override included; a reload goes on to assign only when the
\* environment validates.
C40_Step ==
    /\ (cfg_pc = "idle" /\ cfg_done' = "failed") => settings' = settings
    /\ (cfg_pc = "idle" /\ cfg_pc' = "reload") => Settings(environ).ok
C40_FailedReloadKeepsSettings == [][C40_Step]_vars
\* A reload has just failed on an object that holds a runtime override.
C40_Witness ==
    /\ cfg_pc = "idle"
    /\ cfg_done = "failed"
    /\ ~Settings(environ).ok
    /\ settings[1].database_source = "runtime"
    /\ Target(settings[1]) # Target(Settings(BaseEnv).value)
\* C39: every snapshot of the retry record has 0 <= attempts <= max_attempts,
\* across any sequence of acquires, also after connection_attempts changed.
C39_AttemptsWithinMax ==
    /\ 0 <= connection_retry_state.attempts
    /\ connection_retry_state.attempts <= connection_retry_state.max_attempts
\* Number of places of the claim a connection is in: checked out by a worker,
\* idle in the current cache, or closed; a connection reset_pool has taken out
\* of the cache and is about to close counts as on its way to closed.
PlacesOf(c) ==
    Cardinality({w \in Workers : conn[w] = c})
    + Cardinality({i \in DOMAIN queues[POOL] : queues[POOL][i] = c})
    + Cardinality({<<w, i>> \in Workers \X (1..MaxConns) :
                        i \in DOMAIN drained[w] /\ drained[w][i] = c})
    + (IF c \in closed THEN 1 ELSE 0)

\* C36: in every reachable state every connection ever created is in exactly
\* one place: checked out by one worker, idle in the current cache, or closed;
\* a release that races with reset_pool leaves no open connection in a cache
\* object that reset_pool has drained and replaces.
C36_NoStrandedConnection == \A c \in 1..created : PlacesOf(c) = 1
\* Connections checked out of the cache at this moment.
CheckedOut == {conn[w] : w \in {v \in Workers : pc[v] = "held"}}

\* C38: get_conn never waits for a free slot: a worker about to take from the
\* cache can always take its step, and on an empty cache that step starts a
\* connect, however many connections are checked out; pool_size does not limit
\* the connections checked out at once.
C38_State == \A w \in Workers : pc[w] = "get" => ENABLED GetConnPop(w)
C38_Step ==
    \A w \in Workers :
        (pc[w] = "get" /\ pc'[w] # "get") =>
            IF queues[qref[w]] = <<>>
            THEN pc'[w] = "connect" /\ queues' = queues
            ELSE pc'[w] = "held" /\ conn'[w] = Head(queues[qref[w]])
C38_AcquireNeverWaits == []C38_State /\ [][C38_Step]_vars
\* More connections are checked out than pool_size allows the cache to keep.
C38_Witness ==
    /\ pool_size >= 1
    /\ Cardinality(CheckedOut) > pool_size
    /\ queues[POOL] = <<>>
\* Occurrences of a word in a text.
CountOf(word, text) ==
    Cardinality({i \in 1..(Len(text) - Len(word) + 1) :
                    SubSeq(text, i, i + Len(word) - 1) = word})

\* C32: for an exception message that holds password=X, token=X,
\* Authorization: Bearer X or secret: "X" in any letter case, the redacted text
\* holds X nowhere and holds the marker <redacted> at least once per fragment.
C32_RedactionHidesSecrets ==
    red_out # None =>
        /\ \A i \in DOMAIN red_frags : ~Contains(red_out[1], red_frags[i].X)
        /\ CountOf(REDACTED, red_out[1]) >= Len(red_frags)

\* ============================================= claims on the endpoints
\* C33: every exception text that a connection or query failure causes to be
\* logged or returned to an external caller has passed through credential
\* redaction first: the texts logged for the failure, the text of the exception
\* get_conn raises after the connect sequence is exhausted, and the 'error'
\* field the health check and the query endpoint return are all what
\* _redact_sensitive_text makes of the failure's text.
C33_FailureTextsRedacted ==
    /\ \A text \in rq_log : text = Strip(redact_sensitive_text(rq_exc.message))
    /\ rq_raised.reason = "raw" =>
            rq_raised.cause.message = redact_sensitive_text(rq_raised.cause.message)
    /\ (rq_done # "none" /\ rq_result[1].exception # None) =>
            rq_result[1].error[1] = redact_sensitive_text(rq_result[1].error[1])

\* Host, user, password and database all equal the repository defaults.
FourDefaults(s) ==
    /\ s.host = DEFAULT_DB_HOST
    /\ s.user = DEFAULT_DB_USER
    /\ s.password = DEFAULT_DB_PASSWORD
    /\ s.database = DEFAULT_DB_NAME

\* A database health check made while the four fields hold the defaults
\* returns at once, with ok = false and placeholder_credentials = true, and
\* leaves the cache, the connections and the retry record as they were.
C34_CheckStep ==
    (/\ rq.kind = "none" /\ settings # None /\ FourDefaults(settings[1])
     /\ rq'.kind = "check" \/ rq_done' = "check")
    => /\ rq_done' = "check"
       /\ ~rq_result'[1].ok
       /\ rq_result'[1].placeholder_credentials
       /\ UNCHANGED <<POOL, queues, created, closed, pc, conn, seqs, RETRY_STATE>>

\* The overrides of the last apply_database_overrides, as validated.
LastOverrides == DatabaseOverrides(cfg_arg[1]).value
\* A check has just reported placeholder credentials although the settings
\* are those an apply_database_overrides left.
PlaceholderAfterApply ==
    /\ rq_done = "check"
    /\ rq_result[1].placeholder_credentials
    /\ cfg_pc = "idle"
    /\ cfg_arg # None
    /\ settings[1].database_source = "runtime"

C34_AnyValue ==
    PlaceholderAfterApply =>
        FourDefaults(LastOverrides) /\ LastOverrides.port = DEFAULT_DB_PORT

C34_FourValues == PlaceholderAfterApply => FourDefaults(LastOverrides)

\* C34 as stated: whenever host, user, password and database all equal the
\* repository defaults the health check reports ok = false with
\* placeholder_credentials = true without acquiring a connection or starting a
\* connect sequence, and after apply_database_overrides with any non-default
\* value the check no longer takes this path.
C34_PlaceholderGateAnyValue == [][C34_CheckStep]_vars /\ []C34_AnyValue

\* C34, amended: whenever host, user, password and database all equal the
\* repository defaults the health check reports ok = false with
\* placeholder_credentials = true without acquiring a connection or starting a
\* connect sequence, and after apply_database_overrides with a non-default
\* host, user, password or database the check no longer takes this path (a
\* non-default port alone leaves it on this path).
C34_PlaceholderGate == [][C34_CheckStep]_vars /\ []C34_FourValues

\* A check reports placeholder credentials after an override back to the
\* defaults, while a connection made for an earlier check lies idle in the cache.
C34_Witness ==
    /\ PlaceholderAfterApply
    /\ created >= 1
    /\ Len(queues[POOL]) >= 1
    /\ ~rq_result[1].ok

\* ============================================ claims on a call of run_sql
\* C31: Provenance.as_of_ts is the time at which execution of the statement
\* started: the time read before cursor.execute was called (the call's start),
\* not a time read after the rows have been fetched.
C31_AsOfIsExecutionStart ==
    (call_result # None /\ call_result[1].kind = "ok") =>
        call_result[1].as_of_ts = call.start

\* The errors of validation: TemplateNotFound, SchemaNotAllowed and
\* InvalidIdentifier as run_sql raises them.
ValidationErrors == {"FileNotFoundError", "PermissionError", "ValueError"}

\* C35: when run_sql fails with TemplateNotFound, SchemaNotAllowed or
\* InvalidIdentifier, the failure happens before any connection is borrowed: in
\* the step in which the call ends with such an error no connection changes
\* hands, no connect sequence starts or goes on, and the cache and the retry
\* record are left as they were.
C35_Step ==
    (/\ call_result' # call_result
     /\ call_result' # None
     /\ call_result'[1].kind \in ValidationErrors)
    => /\ call.pc = "idle" /\ pc[MainThread] = "idle"
       /\ UNCHANGED <<POOL, queues, maxsize, created, closed, pc, conn>>
       /\ UNCHANGED <<seqs, cw, RETRY_STATE, stamp>>

C35_ValidationBeforeBorrow == [][C35_Step]_vars

\* A call is refused by validation while a connection of an earlier call lies
\* in the cache and the retry record tells of an earlier failed attempt.
C35_Witness ==
    /\ call_result # None
    /\ call_result[1].kind \in ValidationErrors
    /\ call.pc = "idle"
    /\ Len(queues[POOL]) = 1
    /\ RETRY_STATE.attempts >= 1
    /\ RETRY_STATE.last_failure # None

\* ===================================== claims on a change of target
\* An acquire that started after the followed reset_pool had ended returns a
\* connection: one popped from the cache the reset made, or a new one.
LaterAcquire(w) ==
    /\ followed.done
    /\ pc'[w] = "held"
    /\ \/ pc[w] = "get" /\ qref[w] = POOL
       \/ pc[w] = "connect"

\* C37: after apply_database_overrides followed by a completed reset_pool, no
\* later acquire returns a connection that was opened against the target of
\* before the override, also when a borrower held such a connection across the
\* reset and released it afterwards.
C37_Step ==
    \A w \in Workers : LaterAcquire(w) => opened'[conn'[w]] # Some(TargetBefore)

C37_NoConnectionToOldTarget == [][C37_Step]_vars
====
